---------------------------- MODULE Spec2Model ----------------------------
(***************************************************************************)
(* Sprouts/Aepos proof-of-stake consensus engine.                          *)
(*                                                                         *)
(* The engine facade is src/unnamed/part_000 (lines 1-347), the stake      *)
(* codec and the duplicate-stake map are src/unnamed/part_003 (lines       *)
(* 1-171), the kernel prover/verifier and the extra-region accessors are   *)
(* src/consensus/aepos/calculations.go.  The stake field has 52 bytes      *)
(* (part_000, line 37): its first 32 bytes are coded by part_003, lines    *)
(* 20-57; the value that follows them has no codec in the sources and is   *)
(* laid out as the specification describes it.                             *)
(*                                                                         *)
(* A math/big integer is [neg, mag]: a sign and a magnitude, the magnitude *)
(* a little-endian sequence of base-256 digits without a most significant  *)
(* zero digit, so that big.Int.Bytes and big.Int.SetBytes are real         *)
(* conversions.  A uint64 is held as a magnitude of at most 8 digits.  A   *)
(* *big.Int is a heap object [addr, val]; addr names the allocation that   *)
(* made it, so that two pointers are equal iff they are the same object.   *)
(***************************************************************************)
EXTENDS Integers, Sequences, FiniteSets, TLC

VARIABLES
    clock,        \* time.Now().Unix()
    chainConfig,  \* chain.Config(): the fork block and its hash
    engineSigner, \* engine.signer
    blockchain,   \* the canonical chain: blockchain[n + 1] is block number n
    work,         \* the block the miner is working on, and how far it got
    dbCoinAge,    \* the Database values under "coinage" + address
    lastCall,     \* the last call of the engine and what it returned
    smMap,        \* stake-map harness: the in-memory mappedStakes
    smDb,         \* stake-map harness: the Database value under "mappedStakes"
    smLoaded,     \* stake-map harness: what loadMappedStakes last returned
    smQuery,      \* stake-map harness: the last isDuplicate call and its result
    smSeals,      \* the VerifySeal calls that have returned, in their order
    codecIn,      \* codec harness: the coinAge record handed to bytes()
    codecBytes,   \* codec harness: the serialization, or <<>> before bytes() ran
    codecOut,     \* codec harness: what parseStake returned; err "none" before it ran
    verified,     \* the last verifyHeader call: header, parents and the error
    headers,      \* VerifyHeaders: the batch handed to the call
    worker,       \* VerifyHeaders: where the goroutine is, its i and its err
    results,      \* VerifyHeaders: the errors buffered in the results channel
    abort,        \* VerifyHeaders: whether the caller has closed the abort channel
    published,    \* VerifyHeaders: every error sent on results, in order
    received,     \* VerifyHeaders: the errors the caller has taken from results
    signerFn,     \* engine.signerFn: the account whose key the function signs with
    lock,         \* engine.lock: the writer that holds it and the readers
    callers       \* the Authorize calls under way: where each is, and its arguments

codecVars == <<codecIn, codecBytes, codecOut>>

smVars == <<smMap, smDb, smLoaded, smQuery, smSeals>>

engineVars == <<clock, chainConfig, engineSigner, blockchain, work, dbCoinAge, lastCall>>

batchVars == <<verified, headers, worker, results, abort, published, received>>

lockVars == <<signerFn, lock, callers>>

vars == <<engineVars, codecVars, smVars, batchVars, lockVars>>

-----------------------------------------------------------------------------
(* Byte sequences and math/big magnitudes                                  *)

Min(a, b) == IF a < b THEN a ELSE b

Max(a, b) == IF a < b THEN b ELSE a

Reverse(s) == [i \in 1 .. Len(s) |-> s[Len(s) + 1 - i]]

\* bytes.Repeat([]byte{0x00}, n)
Zeros(n) == [i \in 1 .. n |-> 0]

\* s[lo:hi] of Go (0-based, hi exclusive) on the 1-based sequence s
Slice(s, lo, hi) == SubSeq(s, lo + 1, hi)

\* copy(dst[at:], src): overwrites min(len(dst)-at, len(src)) bytes
CopyAt(dst, at, src) ==
    [i \in 1 .. Len(dst) |->
        IF i > at /\ i <= at + Len(src) THEN src[i - at] ELSE dst[i]]

\* the statements first; second of the source: first is evaluated before
\* second is
Then(first, second) == IF first = first THEN second ELSE second

\* the digit i of a magnitude, 0 above its length
At(m, i) == IF i <= Len(m) THEN m[i] ELSE 0

\* a magnitude without most significant zero digits (nat.norm)
StripHigh(m) ==
    IF m = <<>> \/ m[Len(m)] # 0 THEN m
    ELSE LET used == {i \in 1 .. Len(m) : m[i] # 0}
         IN  SubSeq(m, 1, IF used = {} THEN 0
                          ELSE CHOOSE i \in used : \A j \in used : j <= i)

\* a big.Int value
Big(neg, mag) == [neg |-> neg /\ mag # <<>>, mag |-> mag]

\* new(big.Int).SetBytes(b): b is big-endian
SetBytes(b) == Big(FALSE, StripHigh(Reverse(b)))

\* x.Bytes(): the big-endian magnitude of x, empty for zero
Bytes(x) == Reverse(x.mag)

RECURSIVE NatToMag(_)
\* the magnitude of n, for the n the model can hold
NatToMag(n) == IF n = 0 THEN <<>> ELSE <<n % 256>> \o NatToMag(n \div 256)

\* big.NewInt(n), new(big.Int).SetUint64(n)
NatToBig(n) == Big(FALSE, NatToMag(n))

\* x.Uint64(): the low 64 bits of the magnitude of x
Uint64(x) == StripHigh(SubSeq(x.mag, 1, Min(Len(x.mag), 8)))

\* new(big.Int).SetUint64(u) for a uint64 u
BigOfUint64(u) == Big(FALSE, u)

big0 == [neg |-> FALSE, mag |-> <<>>]

big1 == [neg |-> FALSE, mag |-> <<1>>]

-----------------------------------------------------------------------------
(* math/big arithmetic on magnitudes and on signed values                  *)

RECURSIVE MagAddRange(_, _, _, _, _)
\* the digits lo .. hi of a + b for the carry c into digit lo, and the carry
\* out of digit hi
MagAddRange(a, b, lo, hi, c) ==
    IF lo = hi
    THEN LET x == At(a, lo) + At(b, lo) + c
         IN  [d |-> <<x % 256>>, c |-> x \div 256]
    ELSE LET mid == (lo + hi) \div 2
             low == MagAddRange(a, b, lo, mid, c)
             high == MagAddRange(a, b, mid + 1, hi, low.c)
         IN  Then(low.c, [d |-> low.d \o high.d, c |-> high.c])

\* a + b
MagAdd(a, b) ==
    IF a = <<>> THEN b
    ELSE IF b = <<>> THEN a
    ELSE LET sum == MagAddRange(a, b, 1, Max(Len(a), Len(b)), 0)
         IN  IF sum.c = 0 THEN sum.d ELSE sum.d \o <<sum.c>>

RECURSIVE MagSubRange(_, _, _, _, _)
\* the digits lo .. hi of a - b for the borrow w from digit lo, and the
\* borrow from the digit above hi
MagSubRange(a, b, lo, hi, w) ==
    IF lo = hi
    THEN LET x == At(a, lo) - At(b, lo) - w
         IN  [d |-> <<(x + 256) % 256>>, w |-> IF x < 0 THEN 1 ELSE 0]
    ELSE LET mid == (lo + hi) \div 2
             low == MagSubRange(a, b, lo, mid, w)
             high == MagSubRange(a, b, mid + 1, hi, low.w)
         IN  Then(low.w, [d |-> low.d \o high.d, w |-> high.w])

\* a - b for a >= b
MagSub(a, b) ==
    IF b = <<>> THEN a ELSE StripHigh(MagSubRange(a, b, 1, Len(a), 0).d)

\* -1, 0 or 1 as a < b, a = b, a > b
MagCmp(a, b) ==
    IF Len(a) < Len(b) THEN -1
    ELSE IF Len(a) > Len(b) THEN 1
    ELSE IF a = b THEN 0
    ELSE LET top == CHOOSE i \in 1 .. Len(a) :
                        a[i] # b[i] /\ \A j \in i + 1 .. Len(a) : a[j] = b[j]
         IN  IF a[top] < b[top] THEN -1 ELSE 1

RECURSIVE MagMulDigitRange(_, _, _, _, _)
\* the digits lo .. hi of a * k for one digit k and the carry c into digit
\* lo, and the carry out of digit hi
MagMulDigitRange(a, k, lo, hi, c) ==
    IF lo = hi
    THEN LET x == (a[lo] * k) + c
         IN  [d |-> <<x % 256>>, c |-> x \div 256]
    ELSE LET mid == (lo + hi) \div 2
             low == MagMulDigitRange(a, k, lo, mid, c)
             high == MagMulDigitRange(a, k, mid + 1, hi, low.c)
         IN  Then(low.c, [d |-> low.d \o high.d, c |-> high.c])

\* a * k for one digit k > 0 and a > 0
MagMulDigit(a, k) ==
    LET product == MagMulDigitRange(a, k, 1, Len(a), 0)
    IN  IF product.c = 0 THEN product.d ELSE product.d \o <<product.c>>

RECURSIVE MagMulRange(_, _, _, _)
\* a times the digits lo .. hi of b in their places, for a > 0
MagMulRange(a, b, lo, hi) ==
    IF lo = hi
    THEN IF b[lo] = 0 THEN <<>> ELSE Zeros(lo - 1) \o MagMulDigit(a, b[lo])
    ELSE LET mid == (lo + hi) \div 2
         IN  MagAdd(MagMulRange(a, b, lo, mid), MagMulRange(a, b, mid + 1, hi))

\* a * b
MagMul(a, b) ==
    IF a = <<>> \/ b = <<>> THEN <<>> ELSE MagMulRange(a, b, 1, Len(b))

RECURSIVE MagDivRange(_, _, _, _, _)
\* long division of the digits hi down to lo of a by n, 0 < n < 2^23, for
\* the remainder r the digits above hi left: the digits of the quotient,
\* least significant first and not yet normalised, and the remainder
MagDivRange(a, n, lo, hi, r) ==
    IF lo = hi
    THEN LET x == (r * 256) + a[lo]
         IN  [q |-> <<x \div n>>, r |-> x % n]
    ELSE LET mid == (lo + hi) \div 2
             high == MagDivRange(a, n, mid + 1, hi, r)
             low == MagDivRange(a, n, lo, mid, high.r)
         IN  Then(high.r, [q |-> low.q \o high.q, r |-> low.r])

\* quotient and remainder of a by n, 0 < n < 2^23
MagDivMod(a, n) ==
    IF a = <<>> THEN [q |-> <<>>, r |-> 0]
    ELSE LET qr == MagDivRange(a, n, 1, Len(a), 0)
         IN  [q |-> StripHigh(qr.q), r |-> qr.r]

\* x.Cmp(y)
BigCmp(x, y) ==
    IF x.neg /\ ~y.neg THEN -1
    ELSE IF ~x.neg /\ y.neg THEN 1
    ELSE IF x.neg THEN MagCmp(y.mag, x.mag)
    ELSE MagCmp(x.mag, y.mag)

\* the smaller of two magnitudes
MagMin(a, b) == IF MagCmp(a, b) = 1 THEN b ELSE a

\* the smaller and the larger of two values
BigMin(x, y) == IF BigCmp(x, y) = 1 THEN y ELSE x

BigMax(x, y) == IF BigCmp(x, y) = -1 THEN y ELSE x

\* -x
BigNeg(x) == Big(~x.neg, x.mag)

\* z.Add(x, y)
BigAdd(x, y) ==
    IF x.neg = y.neg THEN Big(x.neg, MagAdd(x.mag, y.mag))
    ELSE IF MagCmp(x.mag, y.mag) >= 0 THEN Big(x.neg, MagSub(x.mag, y.mag))
    ELSE Big(y.neg, MagSub(y.mag, x.mag))

\* z.Sub(x, y)
BigSub(x, y) == BigAdd(x, BigNeg(y))

\* z.Mul(x, y)
BigMul(x, y) == Big(x.neg # y.neg, MagMul(x.mag, y.mag))

\* z.Div(x, y) for 0 < y < 2^23: Euclidean division, the remainder is
\* never negative
BigDiv(x, n) ==
    LET qr == MagDivMod(x.mag, n)
    IN  IF x.neg /\ qr.r # 0
        THEN Big(TRUE, MagAdd(qr.q, <<1>>))
        ELSE Big(x.neg, qr.q)

RECURSIVE BigDivAll(_, _)
\* z.Div(x, y) for a y that is the product of the factors, each of them
\* below 2^23: x div (a * b) = (x div a) div b
BigDivAll(x, factors) ==
    IF factors = <<>> THEN x
    ELSE BigDivAll(BigDiv(x, Head(factors)), Tail(factors))

\* z.Lsh(x, n): x * 2^n
BigLsh(x, n) == BigMul(x, Big(FALSE, Zeros(n \div 8) \o <<2 ^ (n % 8)>>))

\* a - b on uint64: wraps around below zero
U64Sub(a, b) == StripHigh(MagSubRange(a, b, 1, 8, 0).d)

\* a + b on uint64: wraps around at 2^64
U64Add(a, b) == StripHigh(SubSeq(MagAdd(a, b) \o Zeros(8), 1, 8))

-----------------------------------------------------------------------------
(* CoinAge codec                                                           *)

extraCoinAge == 52

\* type coinAge struct { Time uint64; Age *big.Int; Value *big.Int }
CoinAge(time, age, value) == [Time |-> time, Age |-> age, Value |-> value]

\* func (c *coinAge) bytes() []byte, the 32 bytes of time and age
bytesAgeTime(c) ==
    LET encodedAge == Bytes(c.Age)
        encodedLength == Bytes(NatToBig(Len(encodedAge)))
        encoded == encodedLength \o encodedAge
        padded == IF Len(encoded) < 20
                  THEN encoded \o Zeros(20 - Len(encoded))
                  ELSE encoded
        whole == padded \o Zeros(32 - 20)
    IN  CopyAt(whole, 20, Bytes(BigOfUint64(c.Time)))

\* the 52-byte form: the length-prefixed value at offset 32
bytes(c) ==
    LET encodedValue == Bytes(c.Value)
        encodedLength == Bytes(NatToBig(Len(encodedValue)))
    IN  CopyAt(bytesAgeTime(c) \o Zeros(extraCoinAge - 32), 32,
               encodedLength \o encodedValue)

RECURSIVE TimeEnd(_, _)
\* the loop of parseStake: the first index i (0-based) at or after the
\* given one with stakeBytes[i] = 0, or len(stakeBytes)
TimeEnd(stakeBytes, i) ==
    IF i < Len(stakeBytes) /\ stakeBytes[i + 1] # 0
    THEN TimeEnd(stakeBytes, i + 1)
    ELSE i

\* the value of the 52-byte form: length at offset 32, then the bytes
parseValue(stakeBytes) ==
    LET valueLength == stakeBytes[33]
    IN  SetBytes(Slice(stakeBytes, 33, Min(33 + valueLength, Len(stakeBytes))))

\* func parseStake(stakeBytes []byte) (*coinAge, error); spare are the bytes
\* of the array of stakeBytes after its end, up to cap(stakeBytes): the
\* slice expression stakeBytes[1 : 1+ageLength] may reach into them and
\* panics beyond them
parseStake(stakeBytes, spare) ==
    IF Len(stakeBytes) # extraCoinAge
    THEN [err |-> "errInvalidStake", ca |-> CoinAge(<<>>, big0, big0)]
    ELSE LET ageLength == stakeBytes[1]
             hi == 1 + ageLength
         IN  IF hi > Len(stakeBytes) + Len(spare)
             THEN [err |-> "panic", ca |-> CoinAge(<<>>, big0, big0)]
             ELSE [err |-> "nil",
                   ca |-> CoinAge(
                       Uint64(SetBytes(Slice(stakeBytes, 20, TimeEnd(stakeBytes, 20)))),
                       SetBytes(Slice(stakeBytes \o spare, 1, hi)),
                       parseValue(stakeBytes))]

-----------------------------------------------------------------------------
(* Headers and the layout of the extra region                              *)

extraDefault == 32

extraKernel == 32 + 32

extraSeal == 65

\* header.Hash(): keccak-256 of the RLP of the whole header, modelled as
\* injective: two headers have the same hash iff they are the same header
Hash(header) == header

\* common.Hash{}
ZeroHash == [zero |-> TRUE]

\* extractStake(header): the stake is a slice of header.Extra, whose array
\* ends with the seal (cap(header.Extra) = len(header.Extra), as the RLP
\* decoder and Prepare make it)
extractStake(header) ==
    LET n == Len(header.Extra)
    IN  parseStake(Slice(header.Extra, n - extraSeal - extraCoinAge, n - extraSeal),
                   Slice(header.Extra, n - extraSeal, n))

\* extractKernel(header)
extractKernel(header) ==
    LET n == Len(header.Extra)
    IN  Slice(header.Extra, n - extraSeal - extraCoinAge - extraKernel,
              n - extraSeal - extraCoinAge)

-----------------------------------------------------------------------------
(* Difficulty and the stake kernel                                         *)

\* const coinValue = 1000000000000000000, as the factors of 10^18
coinValue == <<1000000, 1000000, 1000000>>

\* coinValue/(24*60*60*10000) = 1157407407, as the factors 27 * 42866941
coinValuePerDay == <<351, 3297457>>

\* d, _ := time.ParseDuration("2160h"); stakeMaxTime = uint64(d): a
\* time.Duration counts nanoseconds
stakeMaxTime == MagMul(NatToMag(2160 * 3600), NatToMag(1000000000))

\* stakeMaxAge = 1 << 149
stakeMaxAge == BigLsh(big1, 149)

\* chain.GetHeaderByNumber(number): nil above the current block
HasNumber(chain, number) == number >= 0 /\ number < Len(chain)

HeaderByNumber(chain, number) == chain[number + 1].header

\* the second half of computeDifficulty without the comparison with big1
scaleDifficultyUnclamped(diff, timeDelta) ==
    LET targetSpacing == 10 * 60
        nInt == (7 * 24 * 60 * 60) \div targetSpacing
        factor == U64Add(NatToMag((nInt - 1) * targetSpacing), U64Add(timeDelta, timeDelta))
    IN  BigDiv(BigMul(diff, BigOfUint64(factor)), (nInt + 1) * targetSpacing)

\* the second half of computeDifficulty with the time of the previous block
\* taken off where the code adds it
scaleDifficultyFaster(diff, timeDelta) ==
    LET targetSpacing == 10 * 60
        nInt == (7 * 24 * 60 * 60) \div targetSpacing
        factor == U64Sub(NatToMag((nInt - 1) * targetSpacing), U64Add(timeDelta, timeDelta))
    IN  BigMax(BigDiv(BigMul(diff, BigOfUint64(factor)), (nInt + 1) * targetSpacing), big1)

\* the second half of computeDifficulty: diff of the previous block scaled
\* by the time timeDelta that block took, 1 at least
scaleDifficulty(diff, timeDelta) ==
    LET targetSpacing == 10 * 60
        nInt == (7 * 24 * 60 * 60) \div targetSpacing
        factor == U64Add(NatToMag((nInt - 1) * targetSpacing), U64Add(timeDelta, timeDelta))
    IN  BigMax(BigDiv(BigMul(diff, BigOfUint64(factor)), (nInt + 1) * targetSpacing), big1)

\* func computeDifficulty(chain, number) *big.Int
computeDifficulty(chain, number) ==
    IF number < 3 THEN NatToBig(10)
    ELSE scaleDifficulty(
             HeaderByNumber(chain, number - 1).Difficulty,
             Uint64(BigSub(NatToBig(HeaderByNumber(chain, number - 1).Time),
                           NatToBig(HeaderByNumber(chain, number - 2).Time))))

\* the low digit of a magnitude, and the one above it
Digit(m, i) == IF i <= Len(m) THEN m[i] ELSE 0

\* sha256(sha256(rawHash)): rawHash is made of prevBlock.Time and of
\* header.Time - step, everything else in it is constant.  SHA-256 is
\* stood in for by a fixed function of the two times that keeps apart the
\* times the model uses; some digests start with a zero byte.
Sha256d(prevTime, stepTime) ==
    LET a == Digit(prevTime, 1)
        b == Digit(stepTime, 1)
        c == Digit(stepTime, 2)
    IN  [i \in 1 .. 32 |->
            IF i = 1 THEN (IF b % 4 = 0 THEN 0 ELSE (b * 37 + a) % 256)
            ELSE IF i = 2 THEN (b * 11 + c) % 256
            ELSE IF i = 3 THEN (IF b % 8 < 6 THEN 0 ELSE 1 + (b % 3))
            ELSE IF i = 4 THEN (IF b % 16 < 15 THEN 0 ELSE 1)
            ELSE IF i = 29 THEN a
            ELSE IF i = 30 THEN Digit(prevTime, 2)
            ELSE IF i = 31 THEN b
            ELSE IF i = 32 THEN c
            ELSE (a + b * i + c) % 256]

\* binary.LittleEndian.Uint32(digest) as a big.Int
LittleEndianUint32(digest) == Big(FALSE, StripHigh(SubSeq(digest, 1, 4)))

\* sha3.NewShake256() over data, 32 bytes read: stood in for by a fixed
\* function that keeps apart the timestamps 0 .. 60
Shake256(data) ==
    LET v == IF data = <<>> THEN 0 ELSE data[Len(data)]
    IN  [i \in 1 .. 32 |-> (v * 7 + i * 13 + 5) % 256]

errCantFindKernel == "no kernel found"

errWrongKernel == "kernel check failed"

errUnknownBlock == "unknown block"

\* the time weight of one attempt of computeKernel: timeWeight :=
\* header.Time.Uint64() - step - prevBlock.Time.Uint64(), at most
\* stakeMaxTime
KernelTimeWeight(prevBlock, header, t) ==
    MagMin(U64Sub(U64Sub(NatToMag(header.Time), NatToMag(t)), NatToMag(prevBlock.Time)),
           stakeMaxTime)

\* the target of one attempt of computeKernel
KernelTarget(prevBlock, age, header, t) ==
    LET timeWeight == KernelTimeWeight(prevBlock, header, t)
        product == BigMul(BigMul(header.Difficulty, age), BigOfUint64(timeWeight))
    IN  BigDiv(BigDivAll(product, coinValue), 24 * 60 * 60)

\* the digest of one attempt of computeKernel
KernelDigest(prevBlock, header, t) ==
    Sha256d(NatToMag(prevBlock.Time), U64Sub(NatToMag(header.Time), NatToMag(t)))

\* one attempt of computeKernel: is the digest below the target
KernelFound(prevBlock, age, header, t) ==
    BigCmp(LittleEndianUint32(KernelDigest(prevBlock, header, t)),
           KernelTarget(prevBlock, age, header, t)) = -1

\* what computeKernel returns for the attempt t that found a kernel
KernelAt(prevBlock, header, t) ==
    [err |-> "nil",
     hash |-> SetBytes(KernelDigest(prevBlock, header, t)),
     timestamp |-> NatToBig(t)]

\* the loop of computeKernel run upwards, for t := 0; t <= 60; t++
KernelSearchUpwards(prevBlock, age, header) ==
    IF \E k \in 0 .. 60 : KernelFound(prevBlock, age, header, k)
    THEN KernelAt(prevBlock, header,
                  CHOOSE k \in 0 .. 60 :
                         /\ KernelFound(prevBlock, age, header, k)
                         /\ \A j \in 0 .. k - 1 : ~KernelFound(prevBlock, age, header, j))
    ELSE [err |-> errCantFindKernel, hash |-> big0, timestamp |-> big0]

\* the loop of computeKernel: for t := 60; t >= 0; t-- stops at the first
\* attempt that finds a kernel
KernelSearch(prevBlock, age, header) ==
    IF \E k \in 0 .. 60 : KernelFound(prevBlock, age, header, 60 - k)
    THEN KernelAt(prevBlock, header,
                  60 - CHOOSE k \in 0 .. 60 :
                         /\ KernelFound(prevBlock, age, header, 60 - k)
                         /\ \A j \in 0 .. k - 1 : ~KernelFound(prevBlock, age, header, 60 - j))
    ELSE [err |-> errCantFindKernel, hash |-> big0, timestamp |-> big0]

\* a nil *types.Header
NilHeader == [nil |-> TRUE]

\* computeKernel with the stake age Seal hands over: 1 for an age of 0
computeKernelAtLeastOne(prevBlock, age, header) ==
    IF header.Number < 1 \/ prevBlock = NilHeader
    THEN [err |-> errCantFindKernel, hash |-> big0, timestamp |-> big0]
    ELSE KernelSearch(prevBlock, IF BigCmp(age, big0) = 0 THEN big1 ELSE age, header)

\* func (engine *PoS) computeKernel(prevBlock, age, header)
computeKernel(prevBlock, age, header) ==
    IF header.Number < 1 \/ prevBlock = NilHeader
    THEN [err |-> errCantFindKernel, hash |-> big0, timestamp |-> big0]
    ELSE KernelSearch(prevBlock, age, header)

\* the second half of checkKernelHash comparing the whole first half of
\* the kernel, without till
compareKernelWhole(found, kernel) ==
    LET hashedTimestamp == Shake256(Bytes(found.timestamp))
        hashAsBytes == Bytes(found.hash)
    IN  IF found.err # "nil" THEN found.err
        ELSE IF \/ Slice(kernel, 0, extraKernel \div 2) # hashAsBytes
                \/ Slice(kernel, extraKernel \div 2, extraKernel) # hashedTimestamp
             THEN errWrongKernel
             ELSE "nil"

\* the second half of checkKernelHash: the kernel of the header against
\* the one computeKernel found
compareKernel(found, kernel) ==
    LET hashedTimestamp == Shake256(Bytes(found.timestamp))
        hashAsBytes == Bytes(found.hash)
        till == Min(extraKernel \div 2, Len(hashAsBytes))
    IN  IF found.err # "nil" THEN found.err
        ELSE IF \/ Slice(kernel, 0, till) # hashAsBytes
                \/ Slice(kernel, extraKernel \div 2, extraKernel) # hashedTimestamp
             THEN errWrongKernel
             ELSE "nil"

\* func (engine *PoS) checkKernelHash(prevBlock, header, stake) error
checkKernelHash(prevBlock, header, stake) ==
    IF header.Number = 0 THEN errUnknownBlock
    ELSE compareKernel(computeKernel(prevBlock, stake.Age, header), extractKernel(header))

-----------------------------------------------------------------------------
(* Coin age of the signer and block rewards                                *)

\* the engine configuration (params.AeposConfig), with the values of the
\* repository's tests
Config ==
    [BlockPeriod |-> 10,
     CoinAgeLifetime |-> 60 * 60 * 24 * 30 * 12,
     CoinAgeHoldingPeriod |-> 60 * 60 * 24 * 1,
     CoinAgeFermentation |-> 60 * 60 * 24 * 7,
     DistributionAccount |-> "D",
     RewardsCharityAccount |-> "C",
     RewardsRDAccount |-> "R"]

GenesisTime == 1516000000

\* engine.getGenesis(): the genesis specification, one pre-allocated account
Genesis == [Timestamp |-> GenesisTime, Alloc |-> [A |-> NatToBig(1000000)]]

\* time.Now().AddDate(0, -6, 0).Unix(): six calendar months, 184 days for
\* the dates of the model
SixMonths == 184 * 24 * 60 * 60

\* preAllocCoefficient = 1 << (256 - 200)
preAllocCoefficient == BigLsh(big1, 256 - 200)

\* func (engine *PoS) getPremineCoinAge() *big.Int
getPremineCoinAge(signer, now) ==
    IF MagCmp(NatToMag(Genesis.Timestamp), U64Sub(NatToMag(now), NatToMag(SixMonths))) = -1
    THEN big0
    ELSE IF signer \in DOMAIN Genesis.Alloc
         THEN BigMul(Genesis.Alloc[signer], preAllocCoefficient)
         ELSE big0

\* a transaction: From is the recovered sender or "invalid" when the
\* signature does not recover, To is the recipient or "nil"
Tx(from, to, value) == [From |-> from, To |-> to, Value |-> value]

\* one pass of the loop of blockAge: -1 when the transaction takes its value
\* and coin age from the signer, 1 when it gives them, 0 when it is skipped
blockAgeSign(transaction, signer, timeDiff) ==
    LET fermented == BigCmp(timeDiff, NatToBig(Config.CoinAgeFermentation)) = 1
    IN  IF transaction.From # "invalid"
        THEN IF transaction.From = signer /\ fermented THEN -1
             ELSE IF transaction.From = Config.DistributionAccount
                     /\ transaction.To = signer
                  THEN 1
                  ELSE 0
        ELSE IF transaction.To = signer /\ fermented THEN 1 ELSE 0

\* bValue and bAge after one pass of the loop of blockAge
blockAgeAdd(acc, sign, value, caFromTx) ==
    IF sign = 0 THEN acc
    ELSE IF sign = 1
         THEN [bValue |-> BigAdd(acc.bValue, value), bAge |-> BigAdd(acc.bAge, caFromTx)]
         ELSE [bValue |-> BigSub(acc.bValue, value), bAge |-> BigSub(acc.bAge, caFromTx)]

RECURSIVE blockAgeLoop(_, _, _, _, _)
\* the loop of blockAge over transactions[i ..]
blockAgeLoop(transactions, i, signer, timeDiff, acc) ==
    IF i > Len(transactions) THEN acc
    ELSE blockAgeLoop(transactions, i + 1, signer, timeDiff,
             blockAgeAdd(acc, blockAgeSign(transactions[i], signer, timeDiff),
                         transactions[i].Value,
                         BigMul(BigMul(transactions[i].Value, timeDiff), NatToBig(100000))))

\* func (engine *PoS) blockAge(block, timeDiff) (value, age *big.Int)
blockAge(block, signer, timeDiff) ==
    blockAgeLoop(block.txs, 1, signer, timeDiff, [bValue |-> big0, bAge |-> big0])

\* func estimateBlockReward(header) *big.Int
estimateBlockReward(header) ==
    LET parsed == extractStake(header)
    IN  IF parsed.err # "nil" THEN big0
        ELSE BigDiv(BigMul(parsed.ca.Value, NatToBig(212)), 1000000)

\* splitRewards taking the 8% off the minter's reward once
splitBruttoOnce(totalReward, brutto) ==
    [brutto |-> brutto, netto |-> BigSub(totalReward, brutto)]

\* the second half of splitRewards: netto = totalReward - brutto - brutto
splitBrutto(totalReward, brutto) ==
    [brutto |-> brutto, netto |-> BigSub(BigSub(totalReward, brutto), brutto)]

\* func splitRewards(totalReward) (brutto, netto *big.Int)
splitRewards(totalReward) ==
    splitBrutto(totalReward, BigDiv(BigMul(totalReward, NatToBig(8)), 100))

\* state.AddBalance(addr, amount)
AddBalance(state, addr, amount) ==
    IF addr \in DOMAIN state
    THEN [state EXCEPT ![addr] = BigAdd(@, amount)]
    ELSE [a \in DOMAIN state \cup {addr} |-> IF a = addr THEN amount ELSE state[a]]

\* the three state.AddBalance calls of accumulateRewards
payRewards(header, state, split) ==
    AddBalance(AddBalance(AddBalance(state, header.Coinbase, split.netto),
                          Config.RewardsCharityAccount, split.brutto),
               Config.RewardsRDAccount, split.brutto)

\* func accumulateRewards(config, header, state)
accumulateRewards(header, state) ==
    payRewards(header, state, splitRewards(estimateBlockReward(header)))

\* func (engine *PoS) stakeOfBlock(block) (*coinAge, bool)
stakeOfBlock(block, signer) ==
    IF block.header.Coinbase # signer THEN [ok |-> FALSE, ca |-> CoinAge(<<>>, big0, big0)]
    ELSE LET parsed == extractStake(block.header)
         IN  [ok |-> parsed.err = "nil", ca |-> parsed.ca]

\* the coin age after the signer's own stake in the block is taken off:
\* only when the block is later than now + CoinAgeHoldingPeriod
accumulateHeld(last, mine, late) ==
    IF mine.ok /\ late THEN BigSub(last.Age, mine.ca.Age) ELSE last.Age

\* the record after the reward of a block the signer minted
accumulateMinted(last, mine, late, nettoReward) ==
    IF mine.ok
    THEN [last EXCEPT !.Age = BigAdd(accumulateHeld(last, mine, late), nettoReward),
                      !.Value = BigAdd(last.Value, nettoReward)]
    ELSE last

\* the record after the transactions of the block
accumulateSpent(minted, b) ==
    [minted EXCEPT !.Age = BigAdd(minted.Age, b.bAge),
                   !.Value = BigAdd(minted.Value, b.bValue)]

\* one block of the closure accumulateCoinAge for the two times it works
\* with: diffTime = now - header.Time, and whether header.Time is later
\* than now + CoinAgeHoldingPeriod
accumulateBlockAt(block, signer, last, diffTime, late) ==
    accumulateSpent(
        accumulateMinted(last, stakeOfBlock(block, signer), late,
            BigMul(splitRewards(estimateBlockReward(block.header)).netto, diffTime)),
        blockAge(block, signer, diffTime))

\* one block of the closure accumulateCoinAge
accumulateBlock(block, signer, now, last) ==
    accumulateBlockAt(block, signer, last,
        BigOfUint64(U64Sub(NatToMag(now), NatToMag(block.header.Time))),
        MagCmp(NatToMag(block.header.Time),
               U64Add(NatToMag(now), NatToMag(Config.CoinAgeHoldingPeriod))) = 1)

RECURSIVE accumulateCoinAge(_, _, _, _, _, _)
\* the closure accumulateCoinAge of coinAge, from block number downwards
accumulateCoinAge(chain, signer, now, fromTime, number, last) ==
    IF number = 0
    THEN [last EXCEPT !.Age = BigAdd(last.Age, getPremineCoinAge(signer, now))]
    ELSE IF ~HasNumber(chain, number) THEN last
    ELSE IF MagCmp(NatToMag(HeaderByNumber(chain, number).Time), fromTime) = -1 THEN last
    ELSE accumulateCoinAge(chain, signer, now, fromTime, number - 1,
                           accumulateBlock(chain[number + 1], signer, now, last))

\* coinAge without the comparison with stakeMaxAge
coinAgeRecordUncapped(now, walked, premine) ==
    CoinAge(NatToMag(now),
            BigDivAll(BigAdd(walked.Age, premine), coinValuePerDay),
            walked.Value)

\* the end of coinAge: the premine coin age added, the sum divided by
\* coinValuePerDay and capped at stakeMaxAge
coinAgeRecord(now, walked, premine) ==
    CoinAge(NatToMag(now),
            BigMin(BigDivAll(BigAdd(walked.Age, premine), coinValuePerDay), stakeMaxAge),
            walked.Value)

\* func (engine *PoS) coinAge(chain) *coinAge, the record it returns and
\* saves under "coinage" + signer
coinAge(chain, signer, now) ==
    LET current == Len(chain) - 1
        currentN == IF current > 0 THEN current - 1 ELSE current
    IN  coinAgeRecord(now,
            accumulateCoinAge(chain, signer, now,
                U64Sub(NatToMag(now), NatToMag(Config.CoinAgeLifetime)),
                currentN, CoinAge(<<>>, big0, big0)),
            getPremineCoinAge(signer, now))

-----------------------------------------------------------------------------
(* Duplicate-stake map                                                     *)

\* a *big.Int: the heap object at addr holding val
BigPtr(addr, val) == [addr |-> addr, val |-> val]

\* type stake struct { Number; Hash; Timestamp; Kernel; Stake *big.Int }
\* as addStake builds it for header with the parsed coin age ca; Stake is
\* the object new(big.Int) allocates in this call
NewStake(header, ca) ==
    LET n == Len(header.Extra)
    IN  [Number |-> header.Number,
         Hash |-> Hash(header),
         Timestamp |-> NatToMag(header.Time),
         Kernel |-> CopyAt(Zeros(extraKernel), 0,
                           SubSeq(Slice(header.Extra, n - extraCoinAge - extraKernel, n),
                                  1, extraKernel)),
         Stake |-> BigPtr(<<"addStake", Hash(header)>>, ca.Age.val)]

\* stakeMap[header.Hash()] = stake{...}: the map is a set of records with
\* at most one record per Hash
MapPut(stakeMap, rec) == {s \in stakeMap : s.Hash # rec.Hash} \cup {rec}

\* func (stakeMap mappedStakes) isDuplicate(stake *coinAge, kernel []byte) bool
\* stake.Age is a *big.Int: == compares the two pointers
isDuplicate(stakeMap, stake, kernel) ==
    \E s \in stakeMap :
        /\ stake.Age.addr = s.Stake.addr
        /\ stake.Time = s.Timestamp
        /\ kernel = s.Kernel

\* json.Marshal(smArr): a big.Int is written as its number, the slice order
\* is the map's iteration order and is not kept
jsonMarshal(stakeMap) ==
    {[Number |-> s.Number, Hash |-> s.Hash, Timestamp |-> s.Timestamp,
      Kernel |-> s.Kernel, Stake |-> s.Stake.val] : s \in stakeMap}

\* json.Unmarshal(blob, v): v must be a non-nil pointer, otherwise
\* InvalidUnmarshalError; every decoded big.Int is a new object
jsonUnmarshal(blob, isPointer) ==
    IF ~isPointer
    THEN [err |-> "InvalidUnmarshalError", arr |-> {}]
    ELSE [err |-> "nil",
          arr |-> {[Number |-> s.Number, Hash |-> s.Hash, Timestamp |-> s.Timestamp,
                    Kernel |-> s.Kernel,
                    Stake |-> BigPtr(<<"json", s.Hash>>, s.Stake)] : s \in blob}]

\* db.Get([]byte("mappedStakes")) on a database that holds no such key
NotFound == [found |-> FALSE, blob |-> {}]

\* func (stakeMap mappedStakes) store(db ethdb.Database) error: the value
\* db.Put writes under "mappedStakes"
store(stakeMap) == [found |-> TRUE, blob |-> jsonMarshal(stakeMap)]

\* func loadMappedStakes(db ethdb.Database) (*mappedStakes, error)
\* smArr is passed to json.Unmarshal by value
loadMappedStakes(dbValue) ==
    IF ~dbValue.found
    THEN [err |-> "not found", stakeMap |-> {}]
    ELSE LET dec == jsonUnmarshal(dbValue.blob, FALSE)
         IN  IF dec.err # "nil"
             THEN [err |-> dec.err, stakeMap |-> {}]
             ELSE [err |-> "nil", stakeMap |-> dec.arr]


-----------------------------------------------------------------------------
(* The engine facade                                                       *)

\* header.Number == nil
NilNumber == -1

\* types.CalcUncleHash(nil)
EmptyUncleHash == "empty"

ErrInvalidNumber == "invalid block number"

ErrFutureBlock == "block in the future"

ErrUnknownAncestor == "unknown ancestor"

errUnclesAreInvalid == "uncles are invalid"

errInvalidSignature == "invalid signature"

errInvalidTimestamp == "invalid timestamp"

errWaitTransactions == "waiting for transactions"

errDuplicateStake == "received duplicate stake"

errForkHash == "homestead gas reprice fork: have different hash"

\* copy(dst[lo:hi], src)
CopyInto(dst, lo, hi, src) ==
    [i \in 1 .. Len(dst) |->
        IF i > lo /\ i <= Min(hi, lo + Len(src)) THEN src[i - lo] ELSE dst[i]]

\* chain.GetHeader(hash, number): the header of that number and hash, or nil
GetHeader(chain, hash, number) ==
    IF HasNumber(chain, number) /\ Hash(HeaderByNumber(chain, number)) = hash
    THEN HeaderByNumber(chain, number)
    ELSE NilHeader

\* VerifyForkHashes called with uncle = true: it checks nothing
VerifyForkHashesUncle(config, header) == "nil"

\* misc.VerifyForkHashes(chain.Config(), header, false): a header of the
\* fork block number must have the hash the chain configuration names
VerifyForkHashes(config, header) ==
    IF /\ config.EIP150Block = header.Number
       /\ config.EIP150Hash # ZeroHash
       /\ config.EIP150Hash # Hash(header)
    THEN errForkHash
    ELSE "nil"

\* func (engine *PoS) addStake(header, ca): the map it hands to the
\* goroutine that saves it, if it gets that far
addStake(db, header, ca) ==
    LET loaded == loadMappedStakes(db)
    IN  IF loaded.err # "nil"
        THEN [spawned |-> FALSE, stakeMap |-> {}]
        ELSE [spawned |-> TRUE,
              stakeMap |-> MapPut(loaded.stakeMap, NewStake(header, ca))]

\* the *coinAge extractStake(header) returns: Age is the object parseStake
\* allocates in this call
StakeOf(header) ==
    LET ca == extractStake(header).ca
    IN  [Time |-> ca.Time, Age |-> BigPtr(<<"parseStake", Hash(header)>>, ca.Age)]

\* func (engine *PoS) VerifySeal(chain, header) error, with the map the
\* call starts to save
VerifySeal(db, header) ==
    LET noSave == [spawned |-> FALSE, stakeMap |-> {}]
        parsed == extractStake(header)
        loaded == loadMappedStakes(db)
    IN  IF header.Number = 0 THEN [err |-> errUnknownBlock, save |-> noSave]
        ELSE IF parsed.err # "nil" THEN [err |-> parsed.err, save |-> noSave]
        ELSE IF loaded.err # "nil" THEN [err |-> "nil", save |-> noSave]
        ELSE IF isDuplicate(loaded.stakeMap, StakeOf(header), extractKernel(header))
             THEN [err |-> errDuplicateStake, save |-> noSave]
             ELSE [err |-> "nil", save |-> addStake(db, header, StakeOf(header))]

\* the parent looked up in the chain first, and taken from the headers
\* before it when the chain has none
ParentOfChainFirst(chain, header, parents) ==
    IF GetHeader(chain, header.ParentHash, header.Number - 1) # NilHeader
    THEN GetHeader(chain, header.ParentHash, header.Number - 1)
    ELSE IF Len(parents) > 0 THEN parents[Len(parents)] ELSE NilHeader

\* the parent verifyHeader checks the header against
ParentOf(chain, header, parents) ==
    IF Len(parents) > 0 THEN parents[Len(parents)]
    ELSE GetHeader(chain, header.ParentHash, header.Number - 1)

\* the end of verifyHeader: the error of checkKernelHash, or the seal
verifyKernel(db, header, kernelErr) ==
    IF kernelErr # "nil"
    THEN [err |-> kernelErr, save |-> [spawned |-> FALSE, stakeMap |-> {}]]
    ELSE VerifySeal(db, header)

\* verifyHeader with the fork hash checked after the kernel, the order of
\* the engine before parents were handed to it
verifyHeaderForkLast(chain, config, db, now, header, parents) ==
    LET noSave == [spawned |-> FALSE, stakeMap |-> {}]
        reject(e) == [err |-> e, save |-> noSave]
        parent == ParentOf(chain, header, parents)
        parsed == extractStake(header)
    IN  IF header.Number = NilNumber THEN reject(ErrInvalidNumber)
        ELSE IF header.Number = 0 THEN reject("nil")
        ELSE IF header.Time > now THEN reject(ErrFutureBlock)
        ELSE IF header.UncleHash # EmptyUncleHash THEN reject(errUnclesAreInvalid)
        ELSE IF Len(header.Extra) < extraSeal + extraKernel + extraCoinAge
             THEN reject(errInvalidSignature)
        ELSE IF \/ parent = NilHeader
                \/ parent.Number # header.Number - 1
                \/ Hash(parent) # header.ParentHash
             THEN reject(ErrUnknownAncestor)
        ELSE IF parent.Time + Config.BlockPeriod > header.Time
             THEN reject(errInvalidTimestamp)
        ELSE IF parsed.err # "nil" THEN reject(parsed.err)
        ELSE IF checkKernelHash(parent, header, parsed.ca) # "nil"
             THEN reject(checkKernelHash(parent, header, parsed.ca))
        ELSE IF VerifyForkHashes(config, header) # "nil"
             THEN reject(VerifyForkHashes(config, header))
        ELSE VerifySeal(db, header)

\* func (engine *PoS) verifyHeader(chain, header, parents) error
verifyHeader(chain, config, db, now, header, parents) ==
    LET noSave == [spawned |-> FALSE, stakeMap |-> {}]
        reject(e) == [err |-> e, save |-> noSave]
        parent == ParentOf(chain, header, parents)
        parsed == extractStake(header)
    IN  IF header.Number = NilNumber THEN reject(ErrInvalidNumber)
        ELSE IF header.Number = 0 THEN reject("nil")
        ELSE IF header.Time > now THEN reject(ErrFutureBlock)
        ELSE IF header.UncleHash # EmptyUncleHash THEN reject(errUnclesAreInvalid)
        ELSE IF Len(header.Extra) < extraSeal + extraKernel + extraCoinAge
             THEN reject(errInvalidSignature)
        ELSE IF VerifyForkHashes(config, header) # "nil"
             THEN reject(VerifyForkHashes(config, header))
        ELSE IF \/ parent = NilHeader
                \/ parent.Number # header.Number - 1
                \/ Hash(parent) # header.ParentHash
             THEN reject(ErrUnknownAncestor)
        ELSE IF parent.Time + Config.BlockPeriod > header.Time
             THEN reject(errInvalidTimestamp)
        ELSE IF parsed.err # "nil" THEN reject(parsed.err)
        ELSE verifyKernel(db, header, checkKernelHash(parent, header, parsed.ca))

\* the first half of Prepare: coinbase, nonce, difficulty, time, mix digest
\* and the extra-data brought to its length
prepareFields(chain, signer, now, header) ==
    LET whole == extraDefault + extraSeal + extraKernel + extraCoinAge
    IN  [header EXCEPT
            !.Coinbase = signer,
            !.Nonce = 0,
            !.Difficulty = computeDifficulty(chain, header.Number),
            !.Time = IF header.Time < now THEN now ELSE header.Time,
            !.MixDigest = ZeroHash,
            !.Extra = SubSeq(IF Len(header.Extra) < whole
                             THEN header.Extra \o Zeros(whole - Len(header.Extra))
                             ELSE header.Extra, 1, whole)]

\* the second half of Prepare with the time of the header left as the
\* first half has it
prepareStakeUndelayed(now, first, parent, ca) ==
    LET n == Len(first.Extra)
    IN  IF parent = NilHeader
        THEN [err |-> ErrUnknownAncestor, header |-> first, saved |-> <<>>]
        ELSE [err |-> "nil",
              header |-> [first EXCEPT
                            !.Extra = CopyInto(first.Extra, n - extraSeal - extraCoinAge,
                                               n - extraSeal, bytes(ca))],
              saved |-> <<ca>>]

\* the second half of Prepare: the parent, the time after it and the coin
\* age ca of the signer written into the extra-data
prepareStake(now, first, parent, ca) ==
    LET delayed == parent.Time + Config.BlockPeriod
        n == Len(first.Extra)
    IN  IF parent = NilHeader
        THEN [err |-> ErrUnknownAncestor, header |-> first, saved |-> <<>>]
        ELSE [err |-> "nil",
              header |-> [first EXCEPT
                            !.Time = IF delayed < now THEN now ELSE delayed,
                            !.Extra = CopyInto(first.Extra, n - extraSeal - extraCoinAge,
                                               n - extraSeal, bytes(ca))],
              saved |-> <<ca>>]

\* func (engine *PoS) Prepare(chain, header) error, with the header as the
\* call leaves it and the coin age record it saves
Prepare(chain, signer, now, header) ==
    prepareStake(now, prepareFields(chain, signer, now, header),
                 GetHeader(chain, header.ParentHash, header.Number - 1),
                 coinAge(chain, signer, now))

\* func reduceCoinAge(state, db, header, stake): the record it saves under
\* "coinage" + header.Coinbase; Finalize passes a nil stake
reduceCoinAge(now, stakeIsNil, loaded, stake) ==
    IF loaded.err # "nil" \/ stakeIsNil
    THEN [Age |-> big0, Time |-> NatToMag(now)]
    ELSE [loaded.ca EXCEPT !.Age = BigSub(loaded.ca.Age, stake), !.Time = NatToMag(now)]

\* the end of Finalize: the state root, the coin age record and the block
finalizeBlock(now, header, txs, loaded, rewarded) ==
    [block |-> [header |-> [header EXCEPT !.Root = rewarded], txs |-> txs],
     state |-> rewarded,
     saved |-> reduceCoinAge(now, TRUE, loaded, big0)]

\* func (engine *PoS) Finalize(chain, header, state, txs, uncles, receipts)
Finalize(now, header, state, txs, loaded) ==
    finalizeBlock(now, [header EXCEPT !.UncleHash = EmptyUncleHash], txs, loaded,
                  accumulateRewards([header EXCEPT !.UncleHash = EmptyUncleHash], state))

\* signerFn(account, sigHash(header)): 65 bytes that tell the signers apart
Sign(signer, header) ==
    [i \in 1 .. extraSeal |-> IF signer = "A" THEN 1 ELSE IF signer = "B" THEN 2 ELSE 3]

\* the age Seal computes the kernel with: 1 for a stake of age 0
sealAge(age) == IF BigCmp(age, big0) = 0 THEN big1 ELSE age

\* Seal writing the kernel where addStake reads it, extraCoinAge +
\* extraKernel bytes before the end
sealKernelBeforeEnd(signer, block, found) ==
    LET header == block.header
        n == Len(header.Extra)
        kernelAt == n - extraCoinAge - extraKernel
        withHash == CopyInto(header.Extra, kernelAt, kernelAt + extraKernel \div 2,
                             Bytes(found.hash))
        withKernel == CopyInto(withHash, kernelAt + extraKernel \div 2,
                               kernelAt + extraKernel,
                               Shake256(Bytes(found.timestamp)))
        kernelled == [header EXCEPT !.Extra = withKernel]
        sealed == [header EXCEPT
                      !.Extra = CopyInto(withKernel, n - extraSeal, n,
                                         Sign(signer, kernelled))]
    IN  IF header.Number = 0 THEN [err |-> errUnknownBlock, block |-> block]
        ELSE IF Len(block.txs) = 0 THEN [err |-> errWaitTransactions, block |-> block]
        ELSE IF found.err # "nil" THEN [err |-> found.err, block |-> block]
        ELSE [err |-> "nil", block |-> [block EXCEPT !.header = sealed]]

\* the rest of Seal for what computeKernel found: the kernel and the
\* signature written into the extra-data
sealKernel(signer, block, found) ==
    LET header == block.header
        n == Len(header.Extra)
        kernelAt == n - extraSeal - extraCoinAge - extraKernel
        withHash == CopyInto(header.Extra, kernelAt, kernelAt + extraKernel \div 2,
                             Bytes(found.hash))
        withKernel == CopyInto(withHash, kernelAt + extraKernel \div 2,
                               kernelAt + extraKernel,
                               Shake256(Bytes(found.timestamp)))
        kernelled == [header EXCEPT !.Extra = withKernel]
        sealed == [header EXCEPT
                      !.Extra = CopyInto(withKernel, n - extraSeal, n,
                                         Sign(signer, kernelled))]
    IN  IF header.Number = 0 THEN [err |-> errUnknownBlock, block |-> block]
        ELSE IF Len(block.txs) = 0 THEN [err |-> errWaitTransactions, block |-> block]
        ELSE IF found.err # "nil" THEN [err |-> found.err, block |-> block]
        ELSE [err |-> "nil", block |-> [block EXCEPT !.header = sealed]]

\* func (engine *PoS) Seal(chain, block, stop) (*types.Block, error)
Seal(chain, signer, block) ==
    sealKernel(signer, block,
               computeKernel(IF HasNumber(chain, block.header.Number - 1)
                             THEN HeaderByNumber(chain, block.header.Number - 1)
                             ELSE NilHeader,
                             sealAge(extractStake(block.header).ca.Age),
                             block.header))

-----------------------------------------------------------------------------
(* The components before any call                                          *)

\* the codec harness before any call
CodecIdle ==
    /\ codecIn = CoinAge(<<>>, big0, big0)
    /\ codecBytes = <<>>
    /\ codecOut = [err |-> "none", ca |-> CoinAge(<<>>, big0, big0)]

\* the stake-map harness before any call
SmIdle ==
    /\ smMap = {}
    /\ smDb = NotFound
    /\ smLoaded = [err |-> "none", stakeMap |-> {}]
    /\ smQuery = [asked |-> FALSE, header |-> ZeroHash, result |-> FALSE]
    /\ smSeals = <<>>

\* no Authorize call yet, the lock free
LockIdle ==
    /\ signerFn = "nil"
    /\ lock = [writer |-> 0, readers |-> 0]
    /\ callers = <<>>

\* no verifyHeader call and no VerifyHeaders call yet
BatchIdle ==
    /\ verified = [called |-> FALSE]
    /\ headers = <<>>
    /\ worker = [pc |-> "none", i |-> 0, err |-> "nil"]
    /\ results = <<>>
    /\ abort = FALSE
    /\ published = <<>>
    /\ received = <<>>

\* common.Address{}
ZeroAddress == "0x0"

Accounts == {"A", "B", "X", Config.DistributionAccount,
             Config.RewardsCharityAccount, Config.RewardsRDAccount, ZeroAddress}

\* the genesis block of the chain
GenesisBlock ==
    [header |-> [Number |-> 0, ParentHash |-> ZeroHash, Time |-> Genesis.Timestamp,
                 Coinbase |-> ZeroAddress, Difficulty |-> big1, Nonce |-> 0,
                 MixDigest |-> ZeroHash, UncleHash |-> EmptyUncleHash, Root |-> <<>>,
                 Extra |-> Zeros(extraDefault + extraSeal + extraKernel + extraCoinAge)],
     txs |-> <<>>]

\* a chain configuration without a fork block
NoFork == [EIP150Block |-> NilNumber, EIP150Hash |-> ZeroHash]

\* db.Get finds nothing under "coinage" + address
NoCoinAge == [err |-> "not found", ca |-> CoinAge(<<>>, big0, big0)]

\* no block in work
NoWork == [stage |-> "idle", block |-> GenesisBlock, state |-> <<>>]

\* the engine after New(config, db) on a new database and a new chain
EngineNew(now, config) ==
    /\ clock = now
    /\ chainConfig = config
    /\ engineSigner = ZeroAddress
    /\ blockchain = <<GenesisBlock>>
    /\ work = NoWork
    /\ dbCoinAge = [a \in Accounts |-> NoCoinAge]
    /\ lastCall = [op |-> "New", err |-> "nil", block |-> GenesisBlock]

\* the engine of a node whose clock is one block period after the genesis
\* block and whose chain has no fork block
EngineIdle == EngineNew(Genesis.Timestamp + Config.BlockPeriod, NoFork)

-----------------------------------------------------------------------------
(* Stake-map harness: the map operations applied to an in-memory map       *)

MaxStakes == 2

MaxSeals == 2

\* a header as Prepare and Seal lay it out: reserved, kernel, stake, seal
SmHeader(age, kernelByte, nonce) ==
    [Number |-> 1, ParentHash |-> Hash(GenesisBlock.header),
     Time |-> Genesis.Timestamp + Config.BlockPeriod,
     Coinbase |-> "X", Difficulty |-> NatToBig(10), Nonce |-> nonce,
     MixDigest |-> ZeroHash, UncleHash |-> EmptyUncleHash, Root |-> <<>>,
     Extra |-> Zeros(extraDefault)
               \o [i \in 1 .. extraKernel |-> kernelByte]
               \o bytes(CoinAge(NatToMag(Genesis.Timestamp + Config.BlockPeriod),
                                NatToBig(age), big0))
               \o [i \in 1 .. extraSeal |-> 7]]

\* two headers of one stake and one kernel, and a header of another stake
\* and another kernel
SmHeaders == {SmHeader(5, 1, 0), SmHeader(5, 1, 1), SmHeader(0, 2, 0)}

InitStakes == SmIdle /\ CodecIdle /\ EngineIdle /\ BatchIdle /\ LockIdle

\* stakeMap[header.Hash()] = stake{...} and the copy of the kernel
SmAdd(header) ==
    /\ Cardinality(smMap) < MaxStakes
    /\ smMap' = MapPut(smMap, NewStake(header, StakeOf(header)))
    /\ UNCHANGED <<smDb, smLoaded, smQuery, smSeals, codecVars, engineVars, batchVars, lockVars>>

\* stakeMap.store(db)
SmStore ==
    /\ smDb' = store(smMap)
    /\ UNCHANGED <<smMap, smLoaded, smQuery, smSeals, codecVars, engineVars, batchVars, lockVars>>

\* loadMappedStakes(db)
SmLoad ==
    /\ smLoaded' = loadMappedStakes(smDb)
    /\ UNCHANGED <<smMap, smDb, smQuery, smSeals, codecVars, engineVars, batchVars, lockVars>>

\* stakeMap.isDuplicate(stake, extractKernel(header))
SmIsDuplicate(header) ==
    /\ smQuery' = [asked |-> TRUE, header |-> header,
                   result |-> isDuplicate(smMap, StakeOf(header), extractKernel(header))]
    /\ UNCHANGED <<smMap, smDb, smLoaded, smSeals, codecVars, engineVars, batchVars, lockVars>>

\* what the harness holds when VerifySeal has returned res for the header:
\* the map the call handed to the goroutine that stores it, if it did, and
\* the database as it is when the call returns
SmVerifySealReturns(header, res) ==
    /\ smSeals' = Append(smSeals, [header |-> header, err |-> res.err,
                                   stakeMap |-> res.save.stakeMap, db |-> smDb])
    /\ smMap' = IF res.save.spawned THEN res.save.stakeMap ELSE smMap

\* engine.VerifySeal(chain, header)
SmVerifySeal(header) ==
    /\ Len(smSeals) < MaxSeals
    /\ SmVerifySealReturns(header, VerifySeal(smDb, header))
    /\ UNCHANGED <<smDb, smLoaded, smQuery, codecVars, engineVars, batchVars, lockVars>>

NextStakes ==
    \/ \E header \in SmHeaders : SmAdd(header)
    \/ SmStore
    \/ SmLoad
    \/ \E header \in SmHeaders : SmIsDuplicate(header)
    \/ \E header \in SmHeaders : SmVerifySeal(header)

SpecStakes == InitStakes /\ [][NextStakes]_vars

\* the triple a header carries: stake age, stake time, kernel
Triple(header) ==
    <<extractStake(header).ca.Age, extractStake(header).ca.Time, extractKernel(header)>>

\* C4: isDuplicate(s, k) is true if and only if a header recorded earlier
\* carries the triple (s.age, s.time, k), ages compared by numeric value.
C4_IsDuplicateIff ==
    smQuery.asked =>
        (smQuery.result <=>
            \E s \in smMap : Triple(s.Hash) = Triple(smQuery.header))

\* the calls of VerifySeal that have returned without an error
SealedOk == {i \in 1 .. Len(smSeals) : smSeals[i].err = "nil"}

\* the records hold the one the header is recorded with: its number, its
\* hash, its time, its kernel and the age of its stake
RecordedIn(header, records) ==
    \E s \in records :
        /\ s.Hash = Hash(header)
        /\ s.Number = header.Number
        /\ s.Timestamp = NatToMag(header.Time)
        /\ s.Kernel = extractKernel(header)
        /\ s.Stake = extractStake(header).ca.Age

\* C3: once VerifySeal has returned without an error for a header, every
\* later VerifySeal of a header that carries the same stake age, stake time
\* and kernel returns errDuplicateStake, whatever the database held before,
\* nothing included.
C3_DuplicateRejected ==
    \A i \in SealedOk : \A j \in i + 1 .. Len(smSeals) :
        Triple(smSeals[j].header) = Triple(smSeals[i].header)
            => smSeals[j].err = errDuplicateStake

\* C36: the duplicate-stake map round-trips through the Database: after
\* store(m), loadMappedStakes returns without an error a map with the
\* keys and the records of m, the ages compared by value.
C36_MapRoundTrips ==
    smDb.found =>
        /\ loadMappedStakes(smDb).err = "nil"
        /\ jsonMarshal(loadMappedStakes(smDb).stakeMap) = smDb.blob

\* C37: the record addStake makes for a header holds exactly the 64 bytes
\* of the kernel extractKernel returns for the header and the stake age
\* extractStake returns for it.
C37_RecordHoldsKernelAndAge ==
    \A s \in smMap :
        /\ s.Kernel = extractKernel(s.Hash)
        /\ s.Stake.val = extractStake(s.Hash).ca.Age

\* C5: when VerifySeal returns without an error for a header, also the
\* first time and on a database that holds no map, the duplicate-stake map
\* the call leaves holds under the hash of the header a record with its
\* number, hash, time, kernel and stake age.
C5_SealRecorded ==
    \A i \in SealedOk :
        RecordedIn(smSeals[i].header, jsonMarshal(smSeals[i].stakeMap))

\* C6: when VerifySeal returns without an error the record is in the
\* database already, and getMappedStakes on that database returns it.
C6_RecordDurable ==
    \A i \in SealedOk :
        /\ RecordedIn(smSeals[i].header, smSeals[i].db.blob)
        /\ loadMappedStakes(smSeals[i].db).err = "nil"
        /\ RecordedIn(smSeals[i].header,
                      jsonMarshal(loadMappedStakes(smSeals[i].db).stakeMap))

\* C7: VerifySeal only adds to the duplicate-stake map: the records an
\* earlier call left are in the map a later call leaves, unchanged, and two
\* headers verified by two workers are both recorded in it.
C7_RecordsKept ==
    \A i \in SealedOk : \A j \in SealedOk :
        i < j =>
            /\ jsonMarshal(smSeals[i].stakeMap) \subseteq jsonMarshal(smSeals[j].stakeMap)
            /\ RecordedIn(smSeals[i].header, jsonMarshal(smSeals[j].stakeMap))
            /\ RecordedIn(smSeals[j].header, jsonMarshal(smSeals[j].stakeMap))

-----------------------------------------------------------------------------
(* Codec harness: serialize a record, then parse the serialization         *)

MaxAgeLen == 20

\* a magnitude of n bytes: most significant byte hi, the others fill
AgeOfLen(n, hi, fill) ==
    IF n = 0 THEN big0 ELSE SetBytes(<<hi>> \o [i \in 1 .. n - 1 |-> fill])

CodecAges ==
    {AgeOfLen(n, hi, fill) : n \in 0 .. MaxAgeLen, hi \in {1, 100}, fill \in {0, 255}}

CodecTimes == {NatToMag(t) : t \in {0, 1, 256, 1257894000, 1516631552}}

CodecValues == {NatToBig(0), NatToBig(2310), SetBytes(<<16, 0, 0, 0, 0, 0, 0, 0, 0, 0>>)}

InitCodec ==
    /\ SmIdle
    /\ EngineIdle
    /\ BatchIdle /\ LockIdle
    /\ codecIn \in {CoinAge(t, a, v) : t \in CodecTimes, a \in CodecAges, v \in CodecValues}
    /\ codecBytes = <<>>
    /\ codecOut = [err |-> "none", ca |-> CoinAge(<<>>, big0, big0)]

\* serialized := testcase.bytes()
CodecSerialize ==
    /\ codecBytes = <<>>
    /\ codecBytes' = bytes(codecIn)
    /\ UNCHANGED <<codecIn, codecOut, smVars, engineVars, batchVars, lockVars>>

\* newCa, err := parseStake(serialized)
CodecParse ==
    /\ codecBytes # <<>>
    /\ codecOut.err = "none"
    /\ codecOut' = parseStake(codecBytes, <<>>)
    /\ UNCHANGED <<codecIn, codecBytes, smVars, engineVars, batchVars, lockVars>>

NextCodec == CodecSerialize \/ CodecParse

SpecCodec == InitCodec /\ [][NextCodec]_vars

\* C1: parseStake(c.bytes()) succeeds and returns the same age, the same
\* time and the same value, for every record whose age occupies at most 20
\* bytes and every time.
C1_RoundTrip ==
    (codecOut.err # "none" /\ Len(codecIn.Age.mag) <= 20) =>
        /\ codecOut.err = "nil"
        /\ codecOut.ca.Age = codecIn.Age
        /\ codecOut.ca.Time = codecIn.Time
        /\ codecOut.ca.Value = codecIn.Value

-----------------------------------------------------------------------------
(* The engine in its host: the miner prepares, finalizes and seals a block *)
(* on the current head; the host verifies the headers that come in and     *)
(* inserts the blocks whose header was accepted                            *)

MaxChainLen == 3

MaxElapsed == 20

\* the difficulty of a chain whose blocks have come slowly for a long time:
\* computeDifficulty multiplies it at every block further apart than 10 min
HighDifficulty == BigLsh(big1, 100)

\* the coin age a peer with a large stake declares
PeerAge == BigLsh(big1, 100)

Tip(chain) == chain[Len(chain)].header

\* the header the miner hands to Prepare: number and parent of the head,
\* the extra-data of the node's configuration
NewHeader(chain, time, extra) ==
    [Number |-> Len(chain), ParentHash |-> Hash(Tip(chain)), Time |-> time,
     Coinbase |-> ZeroAddress, Difficulty |-> big0, Nonce |-> 0,
     MixDigest |-> ZeroHash, UncleHash |-> "", Root |-> <<>>, Extra |-> extra]

HostExtras == {<<>>, [i \in 1 .. 220 |-> 9]}

\* the transactions the host puts in a block
TxSets == {<<>>,
           <<Tx(Config.DistributionAccount, "A", NatToBig(5000)),
             Tx("invalid", "B", NatToBig(30))>>}

\* the state the host hands to Finalize
HostState == [a \in {"A"} |-> Genesis.Alloc[a]]

\* a block another node minted on the head with its own coin age: its
\* engine prepared, finalized and sealed it as this one does
PeerBlock(chain, difficulty, age) ==
    LET time == Tip(chain).Time + Config.BlockPeriod
        raw == NewHeader(chain, time, <<>>)
        padded == [raw EXCEPT
                     !.Coinbase = "X",
                     !.Difficulty = difficulty,
                     !.Extra = CopyInto(
                         Zeros(extraDefault + extraSeal + extraKernel + extraCoinAge),
                         extraDefault + extraKernel,
                         extraDefault + extraKernel + extraCoinAge,
                         bytes(CoinAge(NatToMag(time), age, NatToBig(1000000))))]
        final == Finalize(time, padded, HostState,
                          <<Tx("X", "D", NatToBig(1))>>, NoCoinAge)
    IN  Seal(chain, "X", final.block)

\* the difficulties the peers put in their headers
PeerDifficulties == {NatToBig(10), HighDifficulty}

\* the blocks the peers offer on the head
PeerBlocks(chain) ==
    {r.block : r \in {s \in {PeerBlock(chain, d, PeerAge) : d \in PeerDifficulties} :
                        s.err = "nil"}}

\* a block whose kernel was altered on its way
Forged(block) ==
    LET at == Len(block.header.Extra) - extraSeal - extraCoinAge - extraKernel + 1
    IN  [block EXCEPT !.header.Extra[at] = (@ + 1) % 256]

\* the blocks and what becomes of them on their way
WithForged(blocks) == blocks \cup {Forged(b) : b \in blocks}

\* the blocks that can come in: from the peers, from the miner
Incoming ==
    WithForged(PeerBlocks(blockchain))
        \cup (IF work.stage = "sealed" THEN {work.block} ELSE {})

Init == EngineIdle /\ SmIdle /\ CodecIdle /\ BatchIdle /\ LockIdle

\* a second passes, or several
Tick(d) ==
    /\ clock + d <= Genesis.Timestamp + MaxElapsed
    /\ clock' = clock + d
    /\ lastCall' = [op |-> "Tick", err |-> "nil", block |-> GenesisBlock]
    /\ UNCHANGED <<chainConfig, engineSigner, blockchain, work, dbCoinAge, smVars, codecVars, batchVars, lockVars>>

\* engine.Authorize(signer, signFn), once, before the miner starts
Authorize(a) ==
    /\ engineSigner = ZeroAddress
    /\ engineSigner' = a
    /\ signerFn' = a
    /\ lastCall' = [op |-> "Authorize", err |-> "nil", block |-> GenesisBlock]
    /\ UNCHANGED <<clock, chainConfig, blockchain, work, dbCoinAge, smVars, codecVars,
                   batchVars, lock, callers>>

\* what the miner and the database hold when Prepare has returned res
PrepareReturns(res, given) ==
    /\ work' = IF res.err = "nil"
               THEN [stage |-> "prepared",
                     block |-> [header |-> res.header, txs |-> <<>>],
                     state |-> HostState]
               ELSE work
    /\ dbCoinAge' = IF res.saved = <<>> THEN dbCoinAge
                    ELSE [dbCoinAge EXCEPT ![engineSigner] =
                             [err |-> "nil", ca |-> res.saved[1]]]
    /\ lastCall' = [op |-> "Prepare", err |-> res.err,
                    block |-> [header |-> res.header, txs |-> <<>>],
                    given |-> given]

\* the time and the nonce of the header handed to Prepare: what the miner
\* of the host fills in, a header never filled in, and one from the future
PrepareGiven(chain, now) ==
    {[Time |-> Max(Tip(chain).Time + 1, now), Nonce |-> 0],
     [Time |-> 0, Nonce |-> 7],
     [Time |-> now + 1000, Nonce |-> 7]}

\* the miner starts a block on the head: engine.Prepare(chain, header)
MinerPrepare(extra, given) ==
    /\ engineSigner # ZeroAddress
    /\ work.stage = "idle"
    /\ PrepareReturns(
          Prepare(blockchain, engineSigner, clock,
                  [NewHeader(blockchain, given.Time, extra) EXCEPT
                     !.Nonce = given.Nonce]),
          given)
    /\ UNCHANGED <<clock, chainConfig, engineSigner, blockchain, smVars, codecVars, batchVars, lockVars>>

\* what the miner and the database hold when Finalize has returned res
FinalizeReturns(res) ==
    /\ work' = [stage |-> "finalized", block |-> res.block, state |-> res.state]
    /\ dbCoinAge' = [dbCoinAge EXCEPT ![work.block.header.Coinbase] =
                        [err |-> "nil", ca |-> res.saved]]
    /\ lastCall' = [op |-> "Finalize", err |-> "nil", block |-> res.block]

\* the miner has run the transactions: engine.Finalize(chain, header, ...)
MinerFinalize(txs) ==
    /\ work.stage = "prepared"
    /\ FinalizeReturns(
          Finalize(clock, work.block.header, work.state, txs,
                   dbCoinAge[work.block.header.Coinbase]))
    /\ UNCHANGED <<clock, chainConfig, engineSigner, blockchain, smVars, codecVars, batchVars, lockVars>>

\* what the miner holds when Seal has returned res
SealReturns(res) ==
    /\ work' = IF res.err = "nil"
               THEN [work EXCEPT !.stage = "sealed", !.block = res.block]
               ELSE work
    /\ lastCall' = [op |-> "Seal", err |-> res.err, block |-> res.block]

\* engine.Seal(chain, block, stop)
MinerSeal ==
    /\ work.stage = "finalized"
    /\ SealReturns(Seal(blockchain, engineSigner, work.block))
    /\ UNCHANGED <<clock, chainConfig, engineSigner, blockchain, dbCoinAge, smVars, codecVars, batchVars, lockVars>>

\* what the engine holds when verifyHeader has returned res for the block
VerifyHeaderReturns(block, res) ==
    /\ lastCall' = [op |-> "VerifyHeader", err |-> res.err, block |-> block]
    /\ smMap' = IF res.save.spawned THEN res.save.stakeMap ELSE smMap

\* the host checks the header of a block that came in:
\* engine.VerifyHeader(chain, header, seal)
VerifyHeader(block) ==
    /\ VerifyHeaderReturns(
          block, verifyHeader(blockchain, chainConfig, smDb, clock, block.header, <<>>))
    /\ UNCHANGED <<clock, chainConfig, engineSigner, blockchain, work, dbCoinAge,
                   smDb, smLoaded, smQuery, smSeals, codecVars, batchVars, lockVars>>

\* the host makes the block whose header it has just accepted the new head;
\* the miner drops the block it was working on
HostInsert ==
    /\ Len(blockchain) < MaxChainLen
    /\ lastCall.op = "VerifyHeader"
    /\ lastCall.err = "nil"
    /\ lastCall.block.header.ParentHash = Hash(Tip(blockchain))
    /\ blockchain' = Append(blockchain, lastCall.block)
    /\ lastCall' = [op |-> "Insert", err |-> "nil", block |-> lastCall.block]
    /\ work' = NoWork
    /\ UNCHANGED <<clock, chainConfig, engineSigner, dbCoinAge, smVars, codecVars, batchVars, lockVars>>

TickSteps == {10}

Next ==
    \/ \E d \in TickSteps : Tick(d)
    \/ \E a \in {"A", "B"} : Authorize(a)
    \/ \E extra \in HostExtras, given \in PrepareGiven(blockchain, clock) :
          MinerPrepare(extra, given)
    \/ \E txs \in TxSets : MinerFinalize(txs)
    \/ MinerSeal
    \/ \E block \in Incoming : VerifyHeader(block)
    \/ HostInsert

Spec == Init /\ [][Next]_vars

\* C2: every header that Prepare filled and Seal sealed passes
\* checkKernelHash against its parent with the stake it carries, whatever
\* the prepared stake age, 0 included.
C2_SealedKernelVerifies ==
    (lastCall.op = "Seal" /\ lastCall.err = "nil") =>
        checkKernelHash(GetHeader(blockchain, lastCall.block.header.ParentHash,
                                  lastCall.block.header.Number - 1),
                        lastCall.block.header,
                        extractStake(lastCall.block.header).ca) = "nil"

\* the bytes of extra Seal may write: the kernel and the seal
SealWrites(extra) ==
    LET n == Len(extra)
    IN  (n - extraSeal - extraCoinAge - extraKernel + 1 .. n - extraSeal - extraCoinAge)
            \cup (n - extraSeal + 1 .. n)

\* the sealed header agrees with the finalized one but for the kernel and
\* the seal
SealFrame(finalized, sealed) ==
    /\ sealed = [finalized EXCEPT !.Extra = sealed.Extra]
    /\ Len(sealed.Extra) = Len(finalized.Extra)
    /\ \A i \in DOMAIN finalized.Extra \ SealWrites(finalized.Extra) :
          sealed.Extra[i] = finalized.Extra[i]

\* C35: Seal changes only the 64 bytes of the kernel and the 65 bytes of
\* the seal at the end of extra; the bytes before them, the stake between
\* them and every other field of the header are as before, and no later
\* operation of the engine changes the extra of a sealed header: the miner
\* holds it as sealed, and so does the chain once it is inserted.
C35_SealFrame ==
    [][/\ (work.stage = "finalized" /\ work'.stage = "sealed") =>
              /\ SealFrame(work.block.header, work'.block.header)
              /\ work'.block.txs = work.block.txs
       /\ (work.stage = "sealed" /\ work'.stage = "sealed") => work'.block = work.block
       /\ (work.stage = "sealed" /\ lastCall'.op = "Insert"
             /\ lastCall.block = work.block) => Tip(blockchain') = work.block.header
       /\ \A i \in DOMAIN blockchain : blockchain'[i] = blockchain[i]]_vars

\* the host has verified and inserted a block the miner sealed with a
\* kernel: the head holds the kernel and the signature of the signer
C35_SealedInserted ==
    /\ lastCall.op = "Insert"
    /\ Tip(blockchain).Coinbase = engineSigner
    /\ extractKernel(Tip(blockchain)) # Zeros(extraKernel)
    /\ Slice(Tip(blockchain).Extra,
             Len(Tip(blockchain).Extra) - extraSeal,
             Len(Tip(blockchain).Extra)) = Sign(engineSigner, Tip(blockchain))

\* Prepare has returned without error
Prepared == lastCall.op = "Prepare" /\ lastCall.err = "nil"

\* the parent of the header Prepare has filled
PreparedParent ==
    GetHeader(blockchain, lastCall.block.header.ParentHash,
              lastCall.block.header.Number - 1)

\* C28: when Prepare has returned without error for a header whose parent
\* the chain holds, the time of the header is max(parent.Time +
\* BlockPeriod, now) whatever time it had before, so that parent.Time +
\* BlockPeriod <= header.Time, and its nonce is zero.
C28_PreparedTime ==
    (Prepared /\ PreparedParent # NilHeader) =>
        /\ lastCall.block.header.Time = Max(PreparedParent.Time + Config.BlockPeriod, clock)
        /\ PreparedParent.Time + Config.BlockPeriod <= lastCall.block.header.Time
        /\ lastCall.block.header.Nonce = 0

\* Prepare has brought a header from the future with a nonce back to the
\* time after its parent
C28_FutureTimeReplaced ==
    /\ Prepared
    /\ PreparedParent # NilHeader
    /\ lastCall.given.Time > lastCall.block.header.Time
    /\ lastCall.given.Nonce # 0
    /\ lastCall.block.header.Time > clock

-----------------------------------------------------------------------------
(* verifyHeader on the headers a peer can send: the header of a sealed     *)
(* block on the head, and the headers an altered block has                 *)

\* the block a peer minted on the genesis block
Block1 == PeerBlock(<<GenesisBlock>>, NatToBig(10), PeerAge).block

\* the block a peer minted on Block1
Block2 == PeerBlock(<<GenesisBlock, Block1>>, NatToBig(10), PeerAge).block

\* what can be wrong with a header: an uncle hash, a cut extra-data, an
\* unknown parent hash, a time too close to the parent's, a stake whose
\* length byte is 255, a kernel with an altered byte
Faults == {"uncles", "short", "orphan", "early", "stake", "kernel"}

\* how many faults one header has
MaxFaults == 2

\* the extra-data with the stake and the kernel altered
AlteredExtra(extra, faults) ==
    LET stakeAt == Len(extra) - extraSeal - extraCoinAge + 1
        kernelAt == Len(extra) - extraSeal - extraCoinAge - extraKernel + 1
    IN  [i \in 1 .. (IF "short" \in faults
                     THEN extraSeal + extraKernel + extraCoinAge - 1
                     ELSE Len(extra)) |->
            IF i = stakeAt /\ "stake" \in faults THEN 255
            ELSE IF i = kernelAt /\ "kernel" \in faults THEN (extra[i] + 1) % 256
            ELSE extra[i]]

\* the header with the faults
Altered(header, faults) ==
    [header EXCEPT
        !.UncleHash = IF "uncles" \in faults THEN "uncle" ELSE @,
        !.ParentHash = IF "orphan" \in faults THEN ZeroHash ELSE @,
        !.Time = IF "early" \in faults THEN @ - 1 ELSE @,
        !.Extra = AlteredExtra(@, faults)]

\* the headers handed to verifyHeader: Block1's with a few faults or all,
\* and with another number or none
VerifyCandidates ==
    {Altered(Block1.header, faults) :
        faults \in {fs \in SUBSET Faults : Cardinality(fs) <= MaxFaults}}
        \cup {[Altered(Block1.header, faults) EXCEPT !.Number = number] :
                 faults \in {{}, Faults}, number \in {NilNumber, 0, 2}}

\* the headers that come before it in a batch: none, its parent, or a
\* header that is not its parent
VerifyParents ==
    {<<>>, <<GenesisBlock.header>>, <<GenesisBlock.header, Block2.header>>}

\* chain configurations: no fork block, a fork at block 1 with the hash of
\* another chain's block, a fork at block 1 with the hash of Block1
ForkConfigs ==
    {NoFork,
     [EIP150Block |-> 1, EIP150Hash |-> Hash(GenesisBlock.header)],
     [EIP150Block |-> 1, EIP150Hash |-> Hash(Block1.header)]}

\* a node whose clock is still at the time of the genesis block
InitVerify ==
    /\ \E config \in ForkConfigs : EngineNew(Genesis.Timestamp, config)
    /\ SmIdle
    /\ CodecIdle
    /\ BatchIdle /\ LockIdle

\* what the engine holds when verifyHeader has returned res
VerifyWithParentsReturns(header, parents, res) ==
    /\ verified' = [called |-> TRUE, header |-> header, parents |-> parents,
                    now |-> clock, err |-> res.err, spawned |-> res.save.spawned]
    /\ smMap' = IF res.save.spawned THEN res.save.stakeMap ELSE smMap

\* engine.verifyHeader(chain, header, parents)
VerifyWithParents(header, parents) ==
    /\ VerifyWithParentsReturns(
          header, parents,
          verifyHeader(blockchain, chainConfig, smDb, clock, header, parents))
    /\ UNCHANGED <<engineVars, smDb, smLoaded, smQuery, smSeals, codecVars,
                   headers, worker, results, abort, published, received, lockVars>>

NextVerify ==
    \/ \E d \in TickSteps : Tick(d)
    \/ \E header \in VerifyCandidates, parents \in VerifyParents :
          VerifyWithParents(header, parents)

SpecVerify == InitVerify /\ [][NextVerify]_vars

\* the parent the last call had to check its header against: the last of
\* the headers before it, or the one the chain has under its parent hash
CheckedParent ==
    IF Len(verified.parents) > 0 THEN verified.parents[Len(verified.parents)]
    ELSE GetHeader(blockchain, verified.header.ParentHash, verified.header.Number - 1)

\* the five conditions: a time after now, uncles, a short extra-data, no
\* parent, a time less than a block period after the parent's
ListedFault ==
    \/ verified.header.Time > verified.now
    \/ verified.header.UncleHash # EmptyUncleHash
    \/ Len(verified.header.Extra) < extraSeal + extraKernel + extraCoinAge
    \/ CheckedParent = NilHeader
    \/ CheckedParent.Time + Config.BlockPeriod > verified.header.Time

\* the header is the fork block of the chain and has not the hash the
\* chain configuration names
ForkMismatch ==
    /\ chainConfig.EIP150Block = verified.header.Number
    /\ chainConfig.EIP150Hash # ZeroHash
    /\ chainConfig.EIP150Hash # Hash(verified.header)

\* what else makes verifyHeader fail when none of the five does
FurtherFault ==
    \/ ForkMismatch
    \/ CheckedParent.Number # verified.header.Number - 1
    \/ Hash(CheckedParent) # verified.header.ParentHash
    \/ extractStake(verified.header).err # "nil"
    \/ checkKernelHash(CheckedParent, verified.header,
                       extractStake(verified.header).ca) # "nil"
    \/ VerifySeal(smDb, verified.header).err # "nil"

\* C8 as the specification states it: verifyHeader rejects a non-genesis
\* header if and only if its time is after now, or its uncle hash is not the
\* empty one, or its extra-data is shorter than seal+kernel+stake, or its
\* time is less than a block period after its parent's, or its parent is
\* missing.
C8_RejectsIffListed ==
    (verified.called /\ verified.header.Number >= 1) =>
        ((verified.err # "nil") <=> ListedFault)

\* C8, amended: verifyHeader does not return nil for a non-genesis header
\* if and only if one of the five conditions holds, or the header is the
\* fork block with another hash than the configured one, or the parent has
\* not the number before the header's or not the hash the header names, or
\* the stake cannot be extracted, or checkKernelHash fails, or VerifySeal
\* fails.
C8_RejectsIffAnyCheckFails ==
    (verified.called /\ verified.header.Number >= 1) =>
        ((verified.err # "nil") <=> (ListedFault \/ FurtherFault))

\* a header of number 1 that verifyHeader has accepted
C8_Accepted ==
    /\ verified.called
    /\ verified.header.Number >= 1
    /\ verified.err = "nil"

\* the error of the first check that fails, nil when none does
FirstFailure(checks) ==
    IF \E k \in DOMAIN checks : checks[k].fails
    THEN checks[CHOOSE k \in DOMAIN checks :
                   /\ checks[k].fails
                   /\ \A j \in 1 .. k - 1 : ~checks[j].fails].err
    ELSE "nil"

\* has the header of the last call the whole extra-data
LongExtra == Len(verified.header.Extra) >= extraSeal + extraKernel + extraCoinAge

\* the error of checkKernelHash for the header of the last call and the
\* parent it has, if it has the extra-data and the parent for it
KernelError ==
    IF LongExtra /\ CheckedParent # NilHeader
    THEN checkKernelHash(CheckedParent, verified.header,
                         extractStake(verified.header).ca)
    ELSE "nil"

\* the error of extractStake for the header of the last call
StakeError == IF LongExtra THEN extractStake(verified.header).err ELSE "nil"

\* the error of VerifySeal for the header of the last call
SealError == IF LongExtra THEN VerifySeal(smDb, verified.header).err ELSE "nil"

\* the checks after the number in the order the specification gives
ListedChecks ==
    <<[fails |-> verified.header.Time > verified.now, err |-> ErrFutureBlock],
      [fails |-> verified.header.UncleHash # EmptyUncleHash,
       err |-> errUnclesAreInvalid],
      [fails |-> ~LongExtra, err |-> errInvalidSignature],
      [fails |-> \/ CheckedParent = NilHeader
                 \/ Hash(CheckedParent) # verified.header.ParentHash,
       err |-> ErrUnknownAncestor],
      [fails |-> /\ CheckedParent # NilHeader
                 /\ CheckedParent.Time + Config.BlockPeriod > verified.header.Time,
       err |-> errInvalidTimestamp],
      [fails |-> KernelError # "nil", err |-> KernelError],
      [fails |-> SealError # "nil", err |-> SealError]>>

\* the checks after the number in the order of the code: the fork hash
\* after the length of the extra-data, the number of the parent with its
\* hash, the stake extracted before the kernel is checked
OrderedChecks ==
    <<[fails |-> verified.header.Time > verified.now, err |-> ErrFutureBlock],
      [fails |-> verified.header.UncleHash # EmptyUncleHash,
       err |-> errUnclesAreInvalid],
      [fails |-> ~LongExtra, err |-> errInvalidSignature],
      [fails |-> ForkMismatch, err |-> errForkHash],
      [fails |-> \/ CheckedParent = NilHeader
                 \/ CheckedParent.Number # verified.header.Number - 1
                 \/ Hash(CheckedParent) # verified.header.ParentHash,
       err |-> ErrUnknownAncestor],
      [fails |-> /\ CheckedParent # NilHeader
                 /\ CheckedParent.Time + Config.BlockPeriod > verified.header.Time,
       err |-> errInvalidTimestamp],
      [fails |-> StakeError # "nil", err |-> StakeError],
      [fails |-> KernelError # "nil", err |-> KernelError],
      [fails |-> SealError # "nil", err |-> SealError]>>

\* C9 as the specification states it: verifyHeader returns the error of
\* the first check that fails in the order nil number (InvalidNumber),
\* number 0 (accepted, nothing else checked, nothing written), time after
\* now (FutureBlock), uncle hash (UnclesAreInvalid), short extra-data
\* (InvalidSignature), parent missing or not hash-linked (UnknownAncestor),
\* time too close to the parent's (InvalidTimestamp), checkKernelHash,
\* VerifySeal.
C9_FirstListedFailure ==
    verified.called =>
        /\ verified.err =
              IF verified.header.Number = NilNumber THEN ErrInvalidNumber
              ELSE IF verified.header.Number = 0 THEN "nil"
              ELSE FirstFailure(ListedChecks)
        /\ verified.header.Number = 0 => ~verified.spawned

\* C9, amended: verifyHeader returns the error of the first check that
\* fails in the order nil number, number 0 (accepted, nothing else checked,
\* nothing written), time after now, uncle hash, short extra-data, fork
\* hash (VerifyForkHashes), parent missing or of another number or not
\* hash-linked, time too close to the parent's, extractStake,
\* checkKernelHash, VerifySeal.
C9_FirstFailureInOrder ==
    verified.called =>
        /\ verified.err =
              IF verified.header.Number = NilNumber THEN ErrInvalidNumber
              ELSE IF verified.header.Number = 0 THEN "nil"
              ELSE FirstFailure(OrderedChecks)
        /\ verified.header.Number = 0 => ~verified.spawned

\* a header of the fork block with another hash than the configured one
\* and a parent that is not hash-linked: the fork hash is the error
C9_ForkBeforeAncestor ==
    /\ verified.called
    /\ verified.header.Number = 1
    /\ verified.err = errForkHash
    /\ Hash(CheckedParent) # verified.header.ParentHash

-----------------------------------------------------------------------------
(* VerifyHeaders: the caller, the goroutine it starts, the results channel *)
(* and the abort channel                                                   *)

MaxBatch == 3

\* the headers of a batch: the headers of two blocks in a row, a header
\* whose stake has the length byte 255, a header with an uncle hash
BatchHeaders ==
    {Block1.header, Block2.header,
     Altered(Block1.header, {"stake"}), Altered(Block2.header, {"uncles"})}

\* the batches of at most MaxBatch headers
Batches == UNION {[1 .. n -> BatchHeaders] : n \in 0 .. MaxBatch}

\* a node that has the genesis block and whose clock is two block periods
\* after it
InitBatch ==
    /\ EngineNew(Genesis.Timestamp + 2 * Config.BlockPeriod, NoFork)
    /\ SmIdle
    /\ CodecIdle
    /\ BatchIdle /\ LockIdle

\* engine.VerifyHeaders(chain, headers, seals): makes the two channels,
\* starts the goroutine and returns
VerifyHeaders(batch) ==
    /\ worker.pc = "none"
    /\ headers' = batch
    /\ worker' = [pc |-> "loop", i |-> 0, err |-> "nil"]
    /\ results' = <<>>
    /\ abort' = FALSE
    /\ UNCHANGED <<engineVars, smVars, codecVars, verified, published, received, lockVars>>

\* where the goroutine is when verifyHeader has returned res, or has not
\* returned: a panic in a goroutine ends the process
WorkerVerifyReturns(res) ==
    /\ worker' = IF res.err = "panic"
                 THEN [worker EXCEPT !.pc = "panic"]
                 ELSE [worker EXCEPT !.pc = "select", !.err = res.err]
    /\ smMap' = IF res.save.spawned THEN res.save.stakeMap ELSE smMap

\* err := engine.verifyHeader(chain, header, headers[:i])
WorkerVerify ==
    /\ worker.pc = "loop"
    /\ worker.i < Len(headers)
    /\ WorkerVerifyReturns(
          verifyHeader(blockchain, chainConfig, smDb, clock,
                       headers[worker.i + 1], SubSeq(headers, 1, worker.i)))
    /\ UNCHANGED <<engineVars, smDb, smLoaded, smQuery, smSeals, codecVars,
                   verified, headers, results, abort, published, received, lockVars>>

\* select, case results <- err: the channel has room for len(headers) errors
WorkerSend ==
    /\ worker.pc = "select"
    /\ Len(results) < Len(headers)
    /\ results' = Append(results, worker.err)
    /\ published' = Append(published, worker.err)
    /\ worker' = [worker EXCEPT !.pc = "loop", !.i = worker.i + 1]
    /\ UNCHANGED <<engineVars, smVars, codecVars, verified, headers, abort, received, lockVars>>

\* select, case <-abort: return
WorkerAbort ==
    /\ worker.pc = "select"
    /\ abort
    /\ worker' = [worker EXCEPT !.pc = "aborted"]
    /\ UNCHANGED <<engineVars, smVars, codecVars,
                   verified, headers, results, abort, published, received, lockVars>>

\* the end of the loop: the goroutine returns
WorkerReturn ==
    /\ worker.pc = "loop"
    /\ worker.i = Len(headers)
    /\ worker' = [worker EXCEPT !.pc = "done"]
    /\ UNCHANGED <<engineVars, smVars, codecVars,
                   verified, headers, results, abort, published, received, lockVars>>

\* the caller: close(abort)
CallerAbort ==
    /\ worker.pc \notin {"none", "panic"}
    /\ ~abort
    /\ abort' = TRUE
    /\ UNCHANGED <<engineVars, smVars, codecVars,
                   verified, headers, worker, results, published, received, lockVars>>

\* the caller: err := <-results
CallerReceive ==
    /\ worker.pc # "panic"
    /\ results # <<>>
    /\ received' = Append(received, Head(results))
    /\ results' = Tail(results)
    /\ UNCHANGED <<engineVars, smVars, codecVars,
                   verified, headers, worker, abort, published, lockVars>>

\* the steps of the goroutine at the select and at the end of the loop
WorkerSelect == WorkerSend \/ WorkerAbort \/ WorkerReturn

\* weak fairness of WorkerVerify, with the condition that enables it
\* written out: the goroutine is in the loop and has a header left
WorkerVerifyFair ==
    \/ []<>(~(worker.pc = "loop" /\ worker.i < Len(headers)))
    \/ []<><<WorkerVerify>>_vars

NextBatch ==
    \/ \E batch \in Batches : VerifyHeaders(batch)
    \/ WorkerVerify
    \/ WorkerSend
    \/ WorkerAbort
    \/ WorkerReturn
    \/ CallerAbort
    \/ CallerReceive

\* the Go scheduler runs a goroutine that can run
SpecBatch ==
    InitBatch /\ [][NextBatch]_vars /\ WF_vars(WorkerSelect) /\ WorkerVerifyFair

\* the error verifyHeader returns for the k-th header of the batch, with
\* the headers before it as parents
Verdict(k) ==
    verifyHeader(blockchain, chainConfig, smDb, clock,
                 headers[k], SubSeq(headers, 1, k - 1)).err

\* the header before has the number and the hash the header names as
\* those of its parent
Linked(before, header) ==
    /\ before.Number = header.Number - 1
    /\ Hash(before) = header.ParentHash

\* the header passes the checks verifyHeader makes before it looks at the
\* parent
ReachesParentCheck(header) ==
    /\ header.Number \notin {NilNumber, 0}
    /\ header.Time <= clock
    /\ header.UncleHash = EmptyUncleHash
    /\ Len(header.Extra) >= extraSeal + extraKernel + extraCoinAge
    /\ VerifyForkHashes(chainConfig, header) = "nil"

C10_OneResultPerHeader ==
    /\ [](worker.pc = "select" => Len(results) < Len(headers))
    /\ [](/\ Len(published) <= Len(headers)
          /\ \A k \in 1 .. Len(published) : published[k] = Verdict(k))
    /\ (worker.pc = "loop") ~>
           (abort \/ (worker.pc = "done" /\ Len(published) = Len(headers)))

-----------------------------------------------------------------------------
(* coinAge called again and again on one chain                             *)

MaxTicks == 2

Day == 24 * 60 * 60

\* the times between two calls: a second, more than the fermentation
\* period, most of the six months the premine counts for
CaTickSteps == {1, 8 * Day, 176 * Day}

\* the value of a transaction that moves a large part of a large supply
LargeValue == BigLsh(big1, 170)

\* the transactions of a block, seen from the signer: none, paid by the
\* distribution account, sent by the signer, and both
CaTxSets(signer) ==
    {<<>>,
     <<Tx(Config.DistributionAccount, signer, NatToBig(5000))>>,
     <<Tx(signer, "X", NatToBig(30))>>,
     <<Tx(Config.DistributionAccount, signer, NatToBig(5000)),
       Tx(signer, "X", NatToBig(30))>>,
     <<Tx(Config.DistributionAccount, signer, LargeValue)>>,
     <<Tx(signer, "X", LargeValue)>>}

\* the stake age a block of the signer declares: none, and one that counts
\* after the division by coinValuePerDay
CaStakeAges == {big0, PeerAge}

\* a block on the head of the chain, as GenerateChain of the tests builds
\* it: BlockPeriod after its parent, with a stake of the coinbase
CaBlock(chain, coinbase, age, txs) ==
    LET time == Tip(chain).Time + Config.BlockPeriod
        raw == NewHeader(chain, time, <<>>)
    IN  [header |-> [raw EXCEPT
                       !.Coinbase = coinbase,
                       !.Difficulty = big1,
                       !.UncleHash = EmptyUncleHash,
                       !.Extra = CopyInto(
                           Zeros(extraDefault + extraSeal + extraKernel + extraCoinAge),
                           extraDefault + extraKernel,
                           extraDefault + extraKernel + extraCoinAge,
                           bytes(CoinAge(NatToMag(time), age, NatToBig(1000000))))],
         txs |-> txs]

\* the chains of three blocks on the genesis block: transactions in the
\* first, minted by the signer or by a peer, and the head
CaChain(signer, txs, minter, age) ==
    LET one == <<GenesisBlock, CaBlock(<<GenesisBlock>>, "X", big0, txs)>>
        two == Append(one, CaBlock(one, minter, age, <<>>))
    IN  Append(two, CaBlock(two, "X", big0, <<>>))

\* no call of coinAge yet
NoRecord == CoinAge(<<>>, big0, big0)

InitCoinAge ==
    /\ chainConfig = NoFork
    /\ engineSigner \in {"A", "B"}
    /\ \E txs \in CaTxSets(engineSigner), minter \in {engineSigner, "X"},
          age \in CaStakeAges :
          /\ minter = "X" => age = big0
          /\ blockchain = CaChain(engineSigner, txs, minter, age)
    /\ clock = Tip(blockchain).Time
    /\ work = NoWork
    /\ dbCoinAge = [a \in Accounts |-> NoCoinAge]
    /\ lastCall = [op |-> "New", err |-> "nil", block |-> GenesisBlock,
                   ticks |-> 0, calls |-> 0,
                   now |-> clock, ret |-> NoRecord,
                   prevNow |-> clock, prev |-> NoRecord]
    /\ SmIdle /\ CodecIdle /\ BatchIdle /\ LockIdle

\* time passes between two calls
CaTick(d) ==
    /\ lastCall.ticks < MaxTicks
    /\ clock' = clock + d
    /\ lastCall' = [lastCall EXCEPT !.ticks = @ + 1]
    /\ UNCHANGED <<chainConfig, engineSigner, blockchain, work, dbCoinAge,
                   smVars, codecVars, batchVars, lockVars>>

\* what the database and the caller hold when coinAge has returned ret
CaCoinAgeReturns(ret) ==
    /\ dbCoinAge' = [dbCoinAge EXCEPT ![engineSigner] = [err |-> "nil", ca |-> ret]]
    /\ lastCall' = [lastCall EXCEPT
                      !.op = "coinAge", !.calls = Min(@ + 1, 2),
                      !.now = clock, !.ret = ret,
                      !.prevNow = lastCall.now, !.prev = lastCall.ret]

\* engine.coinAge(chain), as Prepare calls it
CaCoinAge ==
    /\ CaCoinAgeReturns(coinAge(blockchain, engineSigner, clock))
    /\ UNCHANGED <<clock, chainConfig, engineSigner, blockchain, work,
                   smVars, codecVars, batchVars, lockVars>>

\* reduceCoinAge(state, engine.db, header, nil), as Finalize calls it for
\* the header Prepare filled
CaReduceCoinAge ==
    /\ lastCall.op = "coinAge"
    /\ dbCoinAge' = [dbCoinAge EXCEPT ![engineSigner] =
                        [err |-> "nil",
                         ca |-> reduceCoinAge(clock, TRUE, dbCoinAge[engineSigner], big0)]]
    /\ lastCall' = [lastCall EXCEPT !.op = "reduceCoinAge"]
    /\ UNCHANGED <<clock, chainConfig, engineSigner, blockchain, work,
                   smVars, codecVars, batchVars, lockVars>>

NextCoinAge ==
    \/ \E d \in CaTickSteps : CaTick(d)
    \/ CaCoinAge
    \/ CaReduceCoinAge

SpecCoinAge == InitCoinAge /\ [][NextCoinAge]_vars

\* C12: after every call of coinAge, whatever the chain holds, the age
\* returned and the age saved under the signer's key are at most
\* stakeMaxAge = 2^149.
C12_AgeAtMostMax ==
    /\ lastCall.calls > 0 => BigCmp(lastCall.ret.Age, stakeMaxAge) <= 0
    /\ dbCoinAge[engineSigner].err = "nil" =>
          BigCmp(dbCoinAge[engineSigner].ca.Age, stakeMaxAge) <= 0

\* a call has returned and saved exactly stakeMaxAge: the sum was larger
C12_Capped ==
    /\ lastCall.op = "coinAge"
    /\ lastCall.ret.Age = stakeMaxAge
    /\ dbCoinAge[engineSigner].ca.Age = stakeMaxAge

\* C13: two calls of coinAge on an unchanged chain, the second a second
\* after the first and so within any recalculation interval, return the
\* identical record: the same age and the same time.
C13_SecondCallReturnsStored ==
    (lastCall.op = "coinAge" /\ lastCall.calls = 2
        /\ lastCall.now <= lastCall.prevNow + 1) =>
        (lastCall.ret.Age = lastCall.prev.Age /\ lastCall.ret.Time = lastCall.prev.Time)

\* C14: from one call of coinAge to the next at a later clock value on the
\* same chain, with every transaction still inside the lifetime window and
\* no stake consumed, the returned age does not decrease, whether the
\* chain holds outgoing transactions of the signer or not.
C14_AgeNeverDecreases ==
    (lastCall.op = "coinAge" /\ lastCall.calls = 2
        /\ lastCall.now - Genesis.Timestamp <= Config.CoinAgeLifetime) =>
        BigCmp(lastCall.ret.Age, lastCall.prev.Age) >= 0

\* C31: the age of every record coinAge returns and saves is not negative,
\* whatever transactions to and from the signer and whatever stakes of the
\* signer the chain holds.
C31_AgeNotNegative ==
    /\ lastCall.op = "coinAge" => BigCmp(lastCall.ret.Age, big0) >= 0
    /\ dbCoinAge[engineSigner].err = "nil" =>
          BigCmp(dbCoinAge[engineSigner].ca.Age, big0) >= 0

RECURSIVE HeldWalk(_, _, _, _, _, _)
\* the walk of coinAge with the stake of a block of the signer taken off
\* while now - header.Time is less than CoinAgeHoldingPeriod
HeldWalk(chain, signer, now, fromTime, number, last) ==
    IF number = 0
    THEN [last EXCEPT !.Age = BigAdd(last.Age, getPremineCoinAge(signer, now))]
    ELSE IF ~HasNumber(chain, number) THEN last
    ELSE IF MagCmp(NatToMag(HeaderByNumber(chain, number).Time), fromTime) = -1 THEN last
    ELSE HeldWalk(chain, signer, now, fromTime, number - 1,
             accumulateBlockAt(chain[number + 1], signer, last,
                 BigOfUint64(U64Sub(NatToMag(now), NatToMag(chain[number + 1].header.Time))),
                 now - chain[number + 1].header.Time < Config.CoinAgeHoldingPeriod))

\* the walked blocks of the signer that declare a stake age
DeclaredStakes ==
    {n \in 1 .. Len(blockchain) - 2 :
        /\ stakeOfBlock(blockchain[n + 1], engineSigner).ok
        /\ BigCmp(stakeOfBlock(blockchain[n + 1], engineSigner).ca.Age, big0) = 1}

\* C24: coinAge takes the declared stake age of every walked block of the
\* signer with now - header.Time < CoinAgeHoldingPeriod off the age, and
\* leaves the stake age of the signer's older blocks in.
C24_HeldStakeSubtracted ==
    (lastCall.op = "coinAge" /\ DeclaredStakes # {}) =>
        BigCmp(lastCall.ret.Age,
               coinAgeRecord(lastCall.now,
                   HeldWalk(blockchain, engineSigner, lastCall.now,
                       U64Sub(NatToMag(lastCall.now), NatToMag(Config.CoinAgeLifetime)),
                       Len(blockchain) - 2, CoinAge(<<>>, big0, big0)),
                   getPremineCoinAge(engineSigner, lastCall.now)).Age) = 0

RECURSIVE BlocksWalk(_, _, _, _, _, _)
\* what the walk of coinAge takes from the blocks it visits, the premine
\* coin age left out
BlocksWalk(chain, signer, now, fromTime, number, last) ==
    IF number = 0 THEN last
    ELSE IF ~HasNumber(chain, number) THEN last
    ELSE IF MagCmp(NatToMag(HeaderByNumber(chain, number).Time), fromTime) = -1 THEN last
    ELSE BlocksWalk(chain, signer, now, fromTime, number - 1,
                    accumulateBlock(chain[number + 1], signer, now, last))

\* C25: one computation of coinAge adds the premine coin age
\* getPremineCoinAge() exactly once to what it takes from the blocks,
\* whether or not the walk reaches block 0.
C25_PremineOnce ==
    lastCall.op = "coinAge" =>
        BigCmp(lastCall.ret.Age,
               coinAgeRecord(lastCall.now,
                   BlocksWalk(blockchain, engineSigner, lastCall.now,
                       U64Sub(NatToMag(lastCall.now), NatToMag(Config.CoinAgeLifetime)),
                       Len(blockchain) - 2, CoinAge(<<>>, big0, big0)),
                   getPremineCoinAge(engineSigner, lastCall.now)).Age) = 0

-----------------------------------------------------------------------------
(* computeDifficulty on the chains the host builds                         *)

MaxDiffLen == 4

\* the seconds between a block and its parent: BlockPeriod, the target
\* spacing, and twice the target spacing
DiffDeltas == {Config.BlockPeriod, 600, 1200}

\* the times the time between the two blocks before is compared with
DiffCompared == {Config.BlockPeriod, 600, 1200, 100000}

\* the difficulties the headers of the peers carry; verifyHeader does not
\* compare them with computeDifficulty
DiffPeerDifficulties == {big0, big1, NatToBig(1009), HighDifficulty}

\* a block on the head, delta seconds after it, with the difficulty and
\* the coinbase of its header
DiffBlock(chain, delta, coinbase, difficulty) ==
    [header |-> [NewHeader(chain, Tip(chain).Time + delta,
                           Zeros(extraDefault + extraSeal + extraKernel + extraCoinAge))
                   EXCEPT !.Coinbase = coinbase,
                          !.Difficulty = difficulty,
                          !.UncleHash = EmptyUncleHash],
     txs |-> <<>>]

InitDifficulty ==
    /\ EngineNew(Genesis.Timestamp, NoFork)
    /\ SmIdle /\ CodecIdle /\ BatchIdle /\ LockIdle

\* the host makes a block of a peer the new head
DiffInsertPeer(delta, difficulty) ==
    /\ Len(blockchain) < MaxDiffLen
    /\ blockchain' = Append(blockchain, DiffBlock(blockchain, delta, "X", difficulty))
    /\ clock' = Tip(blockchain).Time + delta
    /\ lastCall' = [op |-> "Insert", err |-> "nil", block |-> GenesisBlock]
    /\ UNCHANGED <<chainConfig, engineSigner, work, dbCoinAge, smVars, codecVars, batchVars, lockVars>>

\* the host makes the block the miner prepared the new head: its
\* difficulty is the one Prepare computed for the number after the head
DiffInsertOwn(delta) ==
    /\ Len(blockchain) < MaxDiffLen
    /\ lastCall.op = "computeDifficulty"
    /\ lastCall.number = Len(blockchain)
    /\ blockchain' = Append(blockchain, DiffBlock(blockchain, delta, "A", lastCall.ret))
    /\ clock' = Tip(blockchain).Time + delta
    /\ lastCall' = [op |-> "Insert", err |-> "nil", block |-> GenesisBlock]
    /\ UNCHANGED <<chainConfig, engineSigner, work, dbCoinAge, smVars, codecVars, batchVars, lockVars>>

\* computeDifficulty(chain, number): Prepare calls it with the number
\* after the head, the tests with every number of the chain
ComputeDifficulty(number) ==
    /\ number <= Len(blockchain)
    /\ lastCall' = [op |-> "computeDifficulty", err |-> "nil", block |-> GenesisBlock,
                    number |-> number, ret |-> computeDifficulty(blockchain, number)]
    /\ UNCHANGED <<clock, chainConfig, engineSigner, blockchain, work, dbCoinAge,
                   smVars, codecVars, batchVars, lockVars>>

NextDifficulty ==
    \/ \E delta \in DiffDeltas, difficulty \in DiffPeerDifficulties :
          DiffInsertPeer(delta, difficulty)
    \/ \E delta \in DiffDeltas : DiffInsertOwn(delta)
    \/ \E number \in 1 .. MaxDiffLen : ComputeDifficulty(number)

SpecDifficulty == InitDifficulty /\ [][NextDifficulty]_vars

\* the difficulty d of block number - 1 and the time D that block took
PrevDifficulty(number) == HeaderByNumber(blockchain, number - 1).Difficulty

PrevDelta(number) ==
    HeaderByNumber(blockchain, number - 1).Time - HeaderByNumber(blockchain, number - 2).Time

\* computeDifficulty has just returned for a number from 3 on
Retargeted == lastCall.op = "computeDifficulty" /\ lastCall.number >= 3

TenSecondChain ==
    /\ Len(blockchain) = MaxDiffLen
    /\ \A k \in 2 .. Len(blockchain) :
          /\ blockchain[k].header.Time = blockchain[k - 1].header.Time + 10
          /\ blockchain[k].header.Difficulty = big1

\* C16: on that chain computeDifficulty returns 100000, 100000, 998050,
\* 998050 for the block numbers 1, 2, 3, 4.
C16_DifficultySeries ==
    (lastCall.op = "computeDifficulty" /\ lastCall.number <= 4 /\ TenSecondChain) =>
        lastCall.ret = NatToBig(<<100000, 100000, 998050, 998050>>[lastCall.number])

-----------------------------------------------------------------------------
(* computeKernel and checkKernelHash on the headers that reach them        *)

\* the seconds between the header and its parent: the block period, less
\* and more than the 60 offsets, and more than 2160 hours
KernelDeltas == {Config.BlockPeriod, 30, 70, 91 * 24 * 60 * 60}

\* the stake ages the headers declare: none, the least, two for which
\* the target is in the range of the digests, and a large one
KernelAges == {big0, big1, BigLsh(big1, 80), BigLsh(big1, 87), PeerAge}

KernelDifficulties == {big1, NatToBig(10), HighDifficulty}

\* a block on the head: delta seconds after it, with the difficulty and
\* the stake age of its header, and no kernel yet
KernelBlock(chain, delta, difficulty, age) ==
    LET time == Tip(chain).Time + delta
    IN  [header |-> [NewHeader(chain, time, <<>>) EXCEPT
                       !.Coinbase = "X",
                       !.Difficulty = difficulty,
                       !.UncleHash = EmptyUncleHash,
                       !.Extra = CopyInto(
                           Zeros(extraDefault + extraSeal + extraKernel + extraCoinAge),
                           extraDefault + extraKernel,
                           extraDefault + extraKernel + extraCoinAge,
                           bytes(CoinAge(NatToMag(time), age, NatToBig(1000000))))],
         txs |-> <<Tx("X", "D", NatToBig(1))>>]

\* the blocks computeKernel is called for: on the head of the chain, on a
\* parent the chain does not have, and the genesis block
KernelCandidates ==
    {GenesisBlock}
        \cup {KernelBlock(chain, delta, difficulty, age) :
                 chain \in {<<GenesisBlock>>, <<GenesisBlock, Block1>>},
                 delta \in KernelDeltas,
                 difficulty \in KernelDifficulties,
                 age \in KernelAges}

InitKernel ==
    /\ EngineNew(Genesis.Timestamp + 100, NoFork)
    /\ SmIdle /\ CodecIdle /\ BatchIdle /\ LockIdle

\* a block comes in, or the miner finalized it
KernelReceive(block) ==
    /\ work.stage = "idle"
    /\ work' = [stage |-> "candidate", block |-> block, state |-> <<>>]
    /\ lastCall' = [op |-> "Receive", err |-> "nil", block |-> block]
    /\ UNCHANGED <<clock, chainConfig, engineSigner, blockchain, dbCoinAge,
                   smVars, codecVars, batchVars, lockVars>>

\* the parent the callers of computeKernel look up for header
KernelParent(header) == GetHeader(blockchain, header.ParentHash, header.Number - 1)

\* engine.computeKernel(prevBlock, stake, header) with the stake the header
\* declares
ComputeKernel ==
    /\ work.stage = "candidate"
    /\ lastCall' = [op |-> "computeKernel", err |-> "nil", block |-> work.block,
                    ret |-> computeKernel(KernelParent(work.block.header),
                                          extractStake(work.block.header).ca.Age,
                                          work.block.header)]
    /\ UNCHANGED <<clock, chainConfig, engineSigner, blockchain, work, dbCoinAge,
                   smVars, codecVars, batchVars, lockVars>>

\* engine.checkKernelHash(prevBlock, header, stake) with the stake the
\* header declares
CheckKernelHash ==
    /\ work.stage # "idle"
    /\ lastCall' = [op |-> "checkKernelHash",
                    err |-> checkKernelHash(KernelParent(work.block.header),
                                            work.block.header,
                                            extractStake(work.block.header).ca),
                    block |-> work.block]
    /\ UNCHANGED <<clock, chainConfig, engineSigner, blockchain, work, dbCoinAge,
                   smVars, codecVars, batchVars, lockVars>>

\* the miner seals the block: engine.Seal(chain, block, stop)
KernelSeal ==
    /\ work.stage = "candidate"
    /\ SealReturns(Seal(blockchain, "X", work.block))
    /\ UNCHANGED <<clock, chainConfig, engineSigner, blockchain, dbCoinAge,
                   smVars, codecVars, batchVars, lockVars>>

\* the offsets in the kernel field a byte is altered at: the first and the
\* last byte of each half
AlteredAt == {0, extraKernel \div 2 - 1, extraKernel \div 2, extraKernel - 1}

\* one byte of the kernel of the sealed block changes on its way
KernelAlter(at) ==
    /\ work.stage = "sealed"
    /\ work' = [work EXCEPT
                  !.stage = "altered",
                  !.block.header.Extra[Len(work.block.header.Extra) - extraSeal
                                       - extraCoinAge - extraKernel + at + 1] =
                      (@ + 1) % 256]
    /\ lastCall' = [op |-> "Receive", err |-> "nil", block |-> work'.block]
    /\ UNCHANGED <<clock, chainConfig, engineSigner, blockchain, dbCoinAge,
                   smVars, codecVars, batchVars, lockVars>>

NextKernel ==
    \/ \E block \in KernelCandidates : KernelReceive(block)
    \/ ComputeKernel
    \/ CheckKernelHash
    \/ KernelSeal
    \/ \E at \in AlteredAt : KernelAlter(at)
    \/ (work.stage \in {"candidate", "sealed"} /\ VerifyHeader(work.block))

SpecKernel == InitKernel /\ [][NextKernel]_vars

\* the header, the parent and the stake age of the computeKernel call that
\* has just returned
CalledHeader == lastCall.block.header

CalledAge == extractStake(CalledHeader).ca.Age

\* the offsets of 0 .. 60 whose digest is below their target
Qualifying ==
    IF CalledHeader.Number < 1 \/ KernelParent(CalledHeader) = NilHeader
    THEN {}
    ELSE {t \in 0 .. 60 :
             KernelFound(KernelParent(CalledHeader), CalledAge, CalledHeader, t)}

Largest(S) == CHOOSE t \in S : \A u \in S : u <= t

KernelLoopRan ==
    /\ lastCall.op = "computeKernel"
    /\ CalledHeader.Number >= 1
    /\ KernelParent(CalledHeader) # NilHeader

\* the offsets the loop of the call tried: from 60 down to the one it
\* returned, or all of them when it found none
OffsetsTried ==
    IF lastCall.ret.err = "nil"
    THEN {t \in 0 .. 60 : NatToBig(t).mag = lastCall.ret.timestamp.mag \/ t > Largest(Qualifying)}
    ELSE 0 .. 60

\* C33: the order in which computeKernel tries the offsets, t from 60
\* down to 0, explores larger time weights first: the time weight, and
\* with it the target, of each offset tried is at least that of every
\* offset tried after it.
C33_LargerWeightsFirst ==
    KernelLoopRan =>
        \A t \in OffsetsTried : \A u \in OffsetsTried :
            t > u =>
                /\ MagCmp(KernelTimeWeight(KernelParent(CalledHeader), CalledHeader, t),
                          KernelTimeWeight(KernelParent(CalledHeader), CalledHeader, u)) >= 0
                /\ BigCmp(KernelTarget(KernelParent(CalledHeader), CalledAge, CalledHeader, t),
                          KernelTarget(KernelParent(CalledHeader), CalledAge, CalledHeader, u)) >= 0

\* C34: for every offset t of 0 .. 60 that computeKernel examines, the
\* time weight used in the target is min(header.time - t - prev.time,
\* stakeMaxTime) with a stakeMaxTime of 90 days in seconds, computed
\* without unsigned 64-bit wrap-around, also when header.time - prev.time
\* is less than t.
C34_TimeWeightInSeconds ==
    KernelLoopRan =>
        \A t \in OffsetsTried :
            BigOfUint64(KernelTimeWeight(KernelParent(CalledHeader), CalledHeader, t)) =
                BigMin(NatToBig(90 * 24 * 60 * 60),
                       BigSub(BigSub(NatToBig(CalledHeader.Time), NatToBig(t)),
                              NatToBig(KernelParent(CalledHeader).Time)))

\* what computeKernel finds for the header of the call with the stake age
\* s in place of the declared one
FoundWith(s) == computeKernel(KernelParent(CalledHeader), s, CalledHeader)

\* the offset of a result, as a number
OffsetOf(found) == CHOOSE t \in 0 .. 60 : NatToBig(t) = found.timestamp

C19_NoKernelForAgeZero ==
    (lastCall.op = "computeKernel" /\ BigCmp(CalledAge, big0) = 0) =>
        /\ lastCall.ret.err = errCantFindKernel
        /\ lastCall.ret.timestamp = NatToBig(0)

\* such a call for a header on the head of the chain with the highest
\* difficulty, where an age of 1 finds a kernel
C19_AgeZeroOnHead ==
    /\ lastCall.op = "computeKernel"
    /\ BigCmp(CalledAge, big0) = 0
    /\ KernelParent(CalledHeader) # NilHeader
    /\ CalledHeader.Number >= 1
    /\ CalledHeader.Difficulty = HighDifficulty
    /\ computeKernel(KernelParent(CalledHeader), big1, CalledHeader).err = "nil"

\* C20: when computeKernel fails inside checkKernelHash, checkKernelHash
\* returns WrongKernel; neither checkKernelHash nor verifyHeader ever
\* returns NoKernel, only Seal does.
C20_NoKernelOnlyFromSeal ==
    /\ (lastCall.op = "checkKernelHash" /\ CalledHeader.Number >= 1
          /\ computeKernel(KernelParent(CalledHeader), CalledAge, CalledHeader).err # "nil")
          => lastCall.err = errWrongKernel
    /\ lastCall.op \in {"checkKernelHash", "VerifyHeader"} =>
          lastCall.err # errCantFindKernel

\* what computeKernel finds for the header of the call that has just
\* returned
Recomputed == computeKernel(KernelParent(CalledHeader), CalledAge, CalledHeader)

\* the kernel field of the header against what was recomputed: the first
\* min(32, len(hashBytes)) bytes and the second 32 bytes
KernelMatches(found) ==
    LET kernel == extractKernel(CalledHeader)
        hashBytes == Bytes(found.hash)
    IN  /\ SubSeq(kernel, 1, Min(32, Len(hashBytes))) = hashBytes
        /\ SubSeq(kernel, 33, 64) = Shake256(Bytes(found.timestamp))

\* C21: for a header that is not the genesis header and whose kernel
\* recomputation succeeds with (hashBytes, t), checkKernelHash returns nil
\* exactly when the first min(32, len(hashBytes)) bytes of the kernel
\* field are hashBytes and the second 32 bytes are SHAKE-256 of the bytes
\* of t, and WrongKernel otherwise.
C21_AcceptsIffKernelMatches ==
    (lastCall.op = "checkKernelHash" /\ CalledHeader.Number >= 1
        /\ Recomputed.err = "nil") =>
        lastCall.err = (IF KernelMatches(Recomputed) THEN "nil" ELSE errWrongKernel)

\* a header accepted with a digest of fewer than 32 significant bytes and
\* a kernel field that differs from the sealed one behind them
C21_ShortHashAccepted ==
    /\ lastCall.op = "checkKernelHash"
    /\ lastCall.err = "nil"
    /\ work.stage = "altered"
    /\ Len(Bytes(Recomputed.hash)) < 32

-----------------------------------------------------------------------------
(* Authorize calls while Seal signs: engine.lock, statement by statement   *)

\* the goroutines that call Authorize
CallerIds == {1, 2}

\* what an Authorize call hands over: an address and the function that
\* signs with the key of that address
AuthorizePairs == {[signer |-> a, signFn |-> a] : a \in {"A", "B"}}

\* engine.lock.RLock() returns at once, whoever holds the lock
CanRLockAlways(l) == TRUE

\* engine.lock.RLock() returns: no writer (0 for none) holds the lock
CanRLock(l) == l.writer = 0

\* engine.lock.Lock() returns: no writer and no reader holds the lock
CanLock(l) == l.writer = 0 /\ l.readers = 0

\* the engine of signer A, authorized before the miner started, with a
\* finalized block to seal
InitAuthorize ==
    /\ clock = Genesis.Timestamp + Config.BlockPeriod
    /\ chainConfig = NoFork
    /\ engineSigner = "A"
    /\ signerFn = "A"
    /\ lock = [writer |-> 0, readers |-> 0]
    /\ callers = [c \in CallerIds |-> [pc |-> "idle", signer |-> "A", signFn |-> "A"]]
    /\ blockchain = <<GenesisBlock>>
    /\ work = [stage |-> "finalized", block |-> GenesisBlock, state |-> <<>>,
               pc |-> "idle", signer |-> ZeroAddress, signFn |-> "nil"]
    /\ dbCoinAge = [a \in Accounts |-> NoCoinAge]
    /\ lastCall = [op |-> "New", err |-> "nil", block |-> GenesisBlock]
    /\ SmIdle /\ CodecIdle /\ BatchIdle

\* a goroutine calls engine.Authorize(signer, signFn)
AuthorizeCall(c, pair) ==
    /\ callers[c].pc = "idle"
    /\ callers' = [callers EXCEPT ![c] = [pc |-> "Lock", signer |-> pair.signer,
                                          signFn |-> pair.signFn]]
    /\ UNCHANGED <<engineVars, signerFn, lock, smVars, codecVars, batchVars>>

\* engine.lock.Lock()
AuthorizeLock(c) ==
    /\ callers[c].pc = "Lock"
    /\ CanLock(lock)
    /\ lock' = [lock EXCEPT !.writer = c]
    /\ callers' = [callers EXCEPT ![c].pc = "signer"]
    /\ UNCHANGED <<engineVars, signerFn, smVars, codecVars, batchVars>>

\* engine.signer = signer
AuthorizeSigner(c) ==
    /\ callers[c].pc = "signer"
    /\ engineSigner' = callers[c].signer
    /\ callers' = [callers EXCEPT ![c].pc = "signerFn"]
    /\ UNCHANGED <<clock, chainConfig, blockchain, work, dbCoinAge, lastCall,
                   signerFn, lock, smVars, codecVars, batchVars>>

\* engine.signerFn = signFn
AuthorizeSignerFn(c) ==
    /\ callers[c].pc = "signerFn"
    /\ signerFn' = callers[c].signFn
    /\ callers' = [callers EXCEPT ![c].pc = "Unlock"]
    /\ UNCHANGED <<engineVars, lock, smVars, codecVars, batchVars>>

\* defer engine.lock.Unlock()
AuthorizeUnlock(c) ==
    /\ callers[c].pc = "Unlock"
    /\ lock' = [lock EXCEPT !.writer = 0]
    /\ callers' = [callers EXCEPT ![c].pc = "idle"]
    /\ UNCHANGED <<engineVars, signerFn, smVars, codecVars, batchVars>>

\* Seal has found the kernel and written it into the extra-data
SealKernel ==
    /\ work.stage \in {"finalized", "sealed"}
    /\ work' = [work EXCEPT !.stage = "sealing", !.pc = "RLock",
                            !.signer = ZeroAddress, !.signFn = "nil"]
    /\ UNCHANGED <<clock, chainConfig, engineSigner, blockchain, dbCoinAge, lastCall,
                   lockVars, smVars, codecVars, batchVars>>

\* engine.lock.RLock()
SealRLock ==
    /\ work.stage = "sealing" /\ work.pc = "RLock"
    /\ CanRLock(lock)
    /\ lock' = [lock EXCEPT !.readers = @ + 1]
    /\ work' = [work EXCEPT !.pc = "signer"]
    /\ UNCHANGED <<clock, chainConfig, engineSigner, blockchain, dbCoinAge, lastCall,
                   signerFn, callers, smVars, codecVars, batchVars>>

\* signer, signerFn := engine.signer, engine.signerFn: the first operand
SealReadSigner ==
    /\ work.stage = "sealing" /\ work.pc = "signer"
    /\ work' = [work EXCEPT !.pc = "signerFn", !.signer = engineSigner]
    /\ UNCHANGED <<clock, chainConfig, engineSigner, blockchain, dbCoinAge, lastCall,
                   lockVars, smVars, codecVars, batchVars>>

\* signer, signerFn := engine.signer, engine.signerFn: the second operand
SealReadSignerFn ==
    /\ work.stage = "sealing" /\ work.pc = "signerFn"
    /\ work' = [work EXCEPT !.pc = "RUnlock", !.signFn = signerFn]
    /\ UNCHANGED <<clock, chainConfig, engineSigner, blockchain, dbCoinAge, lastCall,
                   lockVars, smVars, codecVars, batchVars>>

\* engine.lock.RUnlock()
SealRUnlock ==
    /\ work.stage = "sealing" /\ work.pc = "RUnlock"
    /\ lock' = [lock EXCEPT !.readers = @ - 1]
    /\ work' = [work EXCEPT !.pc = "sign"]
    /\ UNCHANGED <<clock, chainConfig, engineSigner, blockchain, dbCoinAge, lastCall,
                   signerFn, callers, smVars, codecVars, batchVars>>

\* signature, err := signerFn(accounts.Account{Address: signer}, ...) and
\* the return of Seal
SealSign ==
    /\ work.stage = "sealing" /\ work.pc = "sign"
    /\ work' = [work EXCEPT !.stage = "sealed", !.pc = "idle"]
    /\ lastCall' = [op |-> "Seal", err |-> "nil", block |-> work.block,
                    signer |-> work.signer, signFn |-> work.signFn]
    /\ UNCHANGED <<clock, chainConfig, engineSigner, blockchain, dbCoinAge,
                   lockVars, smVars, codecVars, batchVars>>

NextAuthorize ==
    \/ \E c \in CallerIds, pair \in AuthorizePairs : AuthorizeCall(c, pair)
    \/ \E c \in CallerIds : AuthorizeLock(c)
    \/ \E c \in CallerIds : AuthorizeSigner(c)
    \/ \E c \in CallerIds : AuthorizeSignerFn(c)
    \/ \E c \in CallerIds : AuthorizeUnlock(c)
    \/ SealKernel
    \/ SealRLock
    \/ SealReadSigner
    \/ SealReadSignerFn
    \/ SealRUnlock
    \/ SealSign

SpecAuthorize == InitAuthorize /\ [][NextAuthorize]_vars

\* Seal has read the address and the function it signs with
SealHasPair ==
    \/ work.stage = "sealing" /\ work.pc \in {"RUnlock", "sign"}
    \/ work.stage = "sealed"

\* C32: however Authorize calls interleave with a running Seal, the address
\* and the signing function that Seal uses come from one and the same
\* Authorize call.
C32_PairFromOneCall ==
    /\ SealHasPair =>
          [signer |-> work.signer, signFn |-> work.signFn] \in AuthorizePairs
    /\ lastCall.op = "Seal" =>
          [signer |-> lastCall.signer, signFn |-> lastCall.signFn] \in AuthorizePairs

\* Seal has read the address of a later Authorize call and is about to
\* read the function, while another Authorize call with the other pair
\* waits for the lock
C32_SealReadsWhileAuthorizeWaits ==
    /\ work.stage = "sealing"
    /\ work.pc = "signerFn"
    /\ work.signer = "B"
    /\ \E c \in CallerIds : callers[c].pc = "Lock" /\ callers[c].signer = "A"

-----------------------------------------------------------------------------
(* Finalize, statement by statement                                        *)

\* the statements of Finalize in the order of its body, the state root
\* taken before the rewards
FinalizeStepsRootFirst ==
    <<"CalcUncleHash", "IntermediateRoot", "accumulateRewards", "reduceCoinAge", "NewBlock">>

\* the statements of Finalize in the order of its body
FinalizeSteps ==
    <<"CalcUncleHash", "accumulateRewards", "IntermediateRoot", "reduceCoinAge", "NewBlock">>

\* state.IntermediateRoot(...): the root stands for the balances it is
\* computed from
IntermediateRoot(state) == state

\* the values the stake of a header declares: without reward, with the
\* least reward, around the least share of 8%, a coin, and a large one
FinValues ==
    {big0, NatToBig(1), NatToBig(4716), NatToBig(4717), NatToBig(61320),
     NatToBig(61321), NatToBig(1000000), BigLsh(big1, 100)}

\* the ages the stake of a header declares
FinAges == {big0, NatToBig(30), PeerAge}

\* the minters: the signer, a peer, the charity account
FinCoinbases == {"A", "X", Config.RewardsCharityAccount}

\* the header Prepare has filled on the head of the chain for a minter
\* whose coin age has the given age and value
PreparedBlock(chain, coinbase, age, value) ==
    LET time == Tip(chain).Time + Config.BlockPeriod
        extra == CopyInto(Zeros(extraDefault + extraSeal + extraKernel + extraCoinAge),
                          extraDefault + extraKernel,
                          extraDefault + extraKernel + extraCoinAge,
                          bytes(CoinAge(NatToMag(time), age, value)))
    IN  [header |-> [NewHeader(chain, time, extra) EXCEPT
                       !.Coinbase = coinbase,
                       !.Difficulty = NatToBig(10)],
         txs |-> <<>>]

\* what the database holds under "coinage" + address from earlier calls
FinStored ==
    {NoCoinAge}
        \cup {[err |-> "nil", ca |-> CoinAge(NatToMag(Genesis.Timestamp), age, big0)] :
                 age \in {big0, NatToBig(100), BigLsh(PeerAge, 1)}}

\* the balances the host hands to Finalize after the transactions
FinStates == {HostState, [a \in {"A", "X"} |-> NatToBig(7)]}

InitFinalize ==
    /\ clock = Genesis.Timestamp + Config.BlockPeriod
    /\ chainConfig = NoFork
    /\ engineSigner = "A"
    /\ blockchain = <<GenesisBlock>>
    /\ work = NoWork
    /\ \E rec \in FinStored : dbCoinAge = [a \in Accounts |-> rec]
    /\ lastCall = [op |-> "New", err |-> "nil", block |-> GenesisBlock]
    /\ SmIdle /\ CodecIdle /\ BatchIdle /\ LockIdle

\* engine.Finalize(chain, header, state, txs, uncles, receipts) is called
FinalizeCall(block, state) ==
    /\ work.stage = "idle"
    /\ work' = [stage |-> "finalizing", block |-> block, state |-> state,
                pc |-> 1, done |-> <<>>, before |-> state,
                stored |-> dbCoinAge[block.header.Coinbase]]
    /\ lastCall' = [op |-> "Finalize", err |-> "nil", block |-> block]
    /\ UNCHANGED <<clock, chainConfig, engineSigner, blockchain, dbCoinAge,
                   smVars, codecVars, batchVars, lockVars>>

\* the statement Finalize is at
FinalizeAt(step) ==
    /\ work.stage = "finalizing"
    /\ FinalizeSteps[work.pc] = step

\* the position after the statement
FinalizePast(w) == [w EXCEPT !.pc = @ + 1, !.done = Append(@, FinalizeSteps[work.pc])]

\* header.UncleHash = types.CalcUncleHash(nil)
FinalizeUncles ==
    /\ FinalizeAt("CalcUncleHash")
    /\ work' = FinalizePast([work EXCEPT !.block.header.UncleHash = EmptyUncleHash])
    /\ UNCHANGED <<clock, chainConfig, engineSigner, blockchain, dbCoinAge, lastCall,
                   smVars, codecVars, batchVars, lockVars>>

\* accumulateRewards(engine.config, header, state)
FinalizeRewards ==
    /\ FinalizeAt("accumulateRewards")
    /\ work' = FinalizePast([work EXCEPT
                               !.state = accumulateRewards(work.block.header, work.state)])
    /\ UNCHANGED <<clock, chainConfig, engineSigner, blockchain, dbCoinAge, lastCall,
                   smVars, codecVars, batchVars, lockVars>>

\* header.Root = state.IntermediateRoot(...)
FinalizeRoot ==
    /\ FinalizeAt("IntermediateRoot")
    /\ work' = FinalizePast([work EXCEPT
                               !.block.header.Root = IntermediateRoot(work.state)])
    /\ UNCHANGED <<clock, chainConfig, engineSigner, blockchain, dbCoinAge, lastCall,
                   smVars, codecVars, batchVars, lockVars>>

\* reduceCoinAge(state, engine.db, header, nil)
FinalizeReduce ==
    /\ FinalizeAt("reduceCoinAge")
    /\ dbCoinAge' = [dbCoinAge EXCEPT ![work.block.header.Coinbase] =
                        [err |-> "nil",
                         ca |-> reduceCoinAge(clock, TRUE,
                                              dbCoinAge[work.block.header.Coinbase],
                                              big0)]]
    /\ work' = FinalizePast(work)
    /\ UNCHANGED <<clock, chainConfig, engineSigner, blockchain, lastCall,
                   smVars, codecVars, batchVars, lockVars>>

\* return types.NewBlock(header, txs, nil, receipts), nil
FinalizeReturn ==
    /\ FinalizeAt("NewBlock")
    /\ work' = [FinalizePast(work) EXCEPT !.stage = "finalized"]
    /\ lastCall' = [op |-> "Finalize", err |-> "nil", block |-> work.block]
    /\ UNCHANGED <<clock, chainConfig, engineSigner, blockchain, dbCoinAge,
                   smVars, codecVars, batchVars, lockVars>>

NextFinalize ==
    \/ \E coinbase \in FinCoinbases, age \in FinAges, value \in FinValues,
          state \in FinStates :
          FinalizeCall(PreparedBlock(blockchain, coinbase, age, value), state)
    \/ FinalizeUncles
    \/ FinalizeRewards
    \/ FinalizeRoot
    \/ FinalizeReduce
    \/ FinalizeReturn

SpecFinalize == InitFinalize /\ [][NextFinalize]_vars

\* accumulateRewards has run in the Finalize call under way
Rewarded ==
    /\ work.stage \in {"finalizing", "finalized"}
    /\ \E i \in 1 .. Len(work.done) : work.done[i] = "accumulateRewards"

\* the balance of an account, 0 for an account the state does not hold
BalanceOf(state, a) == IF a \in DOMAIN state THEN state[a] ELSE big0

RECURSIVE TotalOf(_, _)
\* the balances of the accounts of S added up
TotalOf(state, S) ==
    IF S = {} THEN big0
    ELSE LET a == CHOOSE x \in S : TRUE
         IN  BigAdd(BalanceOf(state, a), TotalOf(state, S \ {a}))

\* R = floor(stake.value * 212 / 10^6) for the header of the call
RewardR == BigDiv(BigMul(extractStake(work.block.header).ca.Value, NatToBig(212)), 1000000)

\* brutto = floor(R * 8 / 100)
RewardBrutto == BigDiv(BigMul(RewardR, NatToBig(8)), 100)

\* netto = R - 2 * brutto
RewardNetto == BigSub(RewardR, BigAdd(RewardBrutto, RewardBrutto))

\* what the claim credits to an account
CreditOf(a) ==
    BigAdd(IF a = work.block.header.Coinbase THEN RewardNetto ELSE big0,
           BigAdd(IF a = Config.RewardsCharityAccount THEN RewardBrutto ELSE big0,
                  IF a = Config.RewardsRDAccount THEN RewardBrutto ELSE big0))

\* C22: accumulateRewards credits brutto = floor(R * 8 / 100) to the
\* charity account, the same to the R&D account and netto = R - 2 * brutto
\* to the coinbase, with R = floor(stake.value * 212 / 10^6); the credits
\* add up to R, netto is not negative, and no other balance changes.
C22_RewardsSplit ==
    Rewarded =>
        /\ \A a \in Accounts \cup DOMAIN work.state :
              BigCmp(BalanceOf(work.state, a),
                     BigAdd(BalanceOf(work.before, a), CreditOf(a))) = 0
        /\ DOMAIN work.before \subseteq DOMAIN work.state
        /\ BigCmp(BigSub(TotalOf(work.state, Accounts), TotalOf(work.before, Accounts)),
                  RewardR) = 0
        /\ BigCmp(RewardNetto, big0) >= 0

\* rewards paid with a share of 8% that is not 0, to a coinbase that is
\* neither of the two accounts
C22_SharesPaid ==
    /\ Rewarded
    /\ BigCmp(RewardBrutto, big0) = 1
    /\ work.block.header.Coinbase = "X"
    /\ BigCmp(BalanceOf(work.state, "X"), BalanceOf(work.before, "X")) = 1

\* reduceCoinAge has run in the Finalize call under way
Reduced ==
    /\ work.stage \in {"finalizing", "finalized"}
    /\ \E i \in 1 .. Len(work.done) : work.done[i] = "reduceCoinAge"

\* the stake age the header of the call declares as consumed
ConsumedStake == extractStake(work.block.header).ca.Age

\* C23: after the reduceCoinAge of a Finalize call for a block that consumed
\* stake, the age stored for the coinbase is max(0, the age stored before -
\* the consumed stake), it is not negative, and the stored time is now.
C23_StoredAgeReduced ==
    (Reduced /\ work.stored.err = "nil" /\ BigCmp(ConsumedStake, big0) = 1) =>
        LET saved == dbCoinAge[work.block.header.Coinbase]
        IN  /\ saved.err = "nil"
            /\ BigCmp(saved.ca.Age,
                      BigMax(big0, BigSub(work.stored.ca.Age, ConsumedStake))) = 0
            /\ BigCmp(saved.ca.Age, big0) >= 0
            /\ saved.ca.Time = NatToMag(clock)

-----------------------------------------------------------------------------
(* blockAge of the two packages on the blocks a chain can hold             *)

\* centValue of package sprouts
centValue == 10000

\* coinValue of package sprouts
sproutsCoinValue == 1000000

\* one pass of the loop of blockAge of package sprouts: the coin age the
\* transaction adds to bAge
sproutsBlockAgeTerm(transaction, signer, timeDiff) ==
    LET fermented == BigCmp(timeDiff, NatToBig(Config.CoinAgeFermentation)) = 1
        caFromTx == BigDiv(BigMul(transaction.Value, timeDiff), centValue)
        granted == BigDiv(BigMul(BigMul(transaction.Value, timeDiff), NatToBig(100)),
                          centValue)
        incoming == IF transaction.To = signer /\ fermented THEN caFromTx ELSE big0
    IN  IF transaction.From # "invalid"
        THEN IF transaction.From = signer /\ fermented THEN BigNeg(caFromTx)
             ELSE IF transaction.From = Config.DistributionAccount THEN granted
             ELSE incoming
        ELSE incoming

RECURSIVE sproutsBlockAgeLoop(_, _, _, _, _)
\* the loop of blockAge of package sprouts over transactions[i ..]
sproutsBlockAgeLoop(transactions, i, signer, timeDiff, bAge) ==
    IF i > Len(transactions) THEN bAge
    ELSE sproutsBlockAgeLoop(transactions, i + 1, signer, timeDiff,
             BigAdd(bAge, sproutsBlockAgeTerm(transactions[i], signer, timeDiff)))

\* the coin-seconds of bAge as coin-days
sproutsCoinDays(bAge) ==
    BigDiv(BigMul(bAge, NatToBig(centValue)), sproutsCoinValue \div (24 * 60 * 60))

\* func (engine *PoS) blockAge(block, timeDiff) *big.Int of package sprouts
sproutsBlockAge(block, signer, timeDiff) ==
    sproutsCoinDays(sproutsBlockAgeLoop(block.txs, 1, signer, timeDiff, big0))

MaxTxs == 2

\* the transactions of a block: to the signer from a peer, from a sender
\* that does not recover and from the distribution account, from the
\* signer, and from the distribution account to a peer
BaTxs ==
    {Tx(from, to, NatToBig(value)) :
        from \in {"X", "invalid", Config.DistributionAccount},
        to \in {"A"}, value \in {3, 5000}}
      \cup {Tx("A", "X", NatToBig(value)) : value \in {3, 5000}}
      \cup {Tx(Config.DistributionAccount, "X", NatToBig(5000))}

\* the blocks of up to MaxTxs transactions
BaBlocks == UNION {[1 .. n -> BaTxs] : n \in 1 .. MaxTxs}

\* now - header.Time: a block period, the fermentation period, a second
\* more, and thirty days
BaTimeDiffs ==
    {Config.BlockPeriod, Config.CoinAgeFermentation, Config.CoinAgeFermentation + 1,
     30 * Day}

\* the engine of signer A about to take a block of its chain into the
\* coin age, timeDiff after the block
InitBlockAge ==
    /\ chainConfig = NoFork
    /\ engineSigner = "A"
    /\ blockchain = <<GenesisBlock>>
    /\ \E txs \in BaBlocks, timeDiff \in BaTimeDiffs :
          /\ clock = Genesis.Timestamp + timeDiff
          /\ work = [stage |-> "walked",
                     block |-> [header |-> GenesisBlock.header, txs |-> txs],
                     state |-> <<>>, timeDiff |-> timeDiff]
    /\ dbCoinAge = [a \in Accounts |-> NoCoinAge]
    /\ lastCall = [op |-> "New", err |-> "nil", block |-> GenesisBlock]
    /\ SmIdle /\ CodecIdle /\ BatchIdle /\ LockIdle

\* the engine when blockAge of a package has returned ret
BlockAgeReturns(op, ret) ==
    /\ lastCall' = [op |-> op, err |-> "nil", block |-> work.block,
                    timeDiff |-> work.timeDiff, ret |-> ret]
    /\ UNCHANGED <<clock, chainConfig, engineSigner, blockchain, work, dbCoinAge,
                   smVars, codecVars, batchVars, lockVars>>

\* engine.blockAge(block, timeDiff) of package aepos, as coinAge calls it
AeposBlockAge ==
    /\ work.stage = "walked"
    /\ BlockAgeReturns("aepos.blockAge",
           blockAge(work.block, engineSigner, NatToBig(work.timeDiff)).bAge)

\* engine.blockAge(block, timeDiff) of package sprouts, as coinAge calls it
SproutsBlockAge ==
    /\ work.stage = "walked"
    /\ BlockAgeReturns("sprouts.blockAge",
           sproutsBlockAge(work.block, engineSigner, NatToBig(work.timeDiff)))

NextBlockAge ==
    \/ AeposBlockAge
    \/ SproutsBlockAge

SpecBlockAge == InitBlockAge /\ [][NextBlockAge]_vars

\* blockAge of one of the packages has returned
BlockAgeCalled == lastCall.op \in {"aepos.blockAge", "sprouts.blockAge"}

\* a transaction to the signer that neither the signer nor the distribution
\* account has sent
RegularIncoming(transaction) ==
    /\ transaction.To = engineSigner
    /\ transaction.From \notin {engineSigner, Config.DistributionAccount}

\* the transactions with senders that do not recover
Unrecovered(txs) == [i \in DOMAIN txs |-> [txs[i] EXCEPT !.From = "invalid"]]

RECURSIVE IncomingSum(_, _, _)
\* the sum of value * timeDiff / centValue over transactions[i ..]
IncomingSum(transactions, i, timeDiff) ==
    IF i > Len(transactions) THEN big0
    ELSE BigAdd(BigDiv(BigMul(transactions[i].Value, NatToBig(timeDiff)), centValue),
                IncomingSum(transactions, i + 1, timeDiff))

\* C26: blockAge adds value * timeDiff / centValue for every transaction to
\* the signer older than CoinAgeFermentation, whether the sender, neither
\* the signer nor the distribution account, recovers or not: the block
\* counts as it does with senders that do not recover, and it counts.
C26_IncomingCounted ==
    (/\ BlockAgeCalled
     /\ lastCall.timeDiff > Config.CoinAgeFermentation
     /\ \A i \in DOMAIN lastCall.block.txs : RegularIncoming(lastCall.block.txs[i])) =>
        IF lastCall.op = "sprouts.blockAge"
        THEN BigCmp(lastCall.ret,
                    sproutsCoinDays(IncomingSum(lastCall.block.txs, 1,
                                                lastCall.timeDiff))) = 0
        ELSE /\ BigCmp(lastCall.ret, big0) = 1
             /\ BigCmp(lastCall.ret,
                       blockAge([header |-> lastCall.block.header,
                                 txs |-> Unrecovered(lastCall.block.txs)],
                                engineSigner, NatToBig(lastCall.timeDiff)).bAge) = 0

\* the call was for a block of one grant of the distribution account to
\* the signer
GrantCalled ==
    /\ BlockAgeCalled
    /\ Len(lastCall.block.txs) = 1
    /\ lastCall.block.txs[1].From = Config.DistributionAccount
    /\ lastCall.block.txs[1].To = engineSigner

\* what the package of the call adds for the transactions, before any
\* conversion to coin-days
AddedBy(op, txs, timeDiff) ==
    IF op = "sprouts.blockAge"
    THEN sproutsBlockAgeLoop(txs, 1, engineSigner, NatToBig(timeDiff), big0)
    ELSE blockAge([header |-> lastCall.block.header, txs |-> txs],
                  engineSigner, NatToBig(timeDiff)).bAge

\* C27: a grant of the distribution account to the signer counts for every
\* timeDiff, also one of CoinAgeFermentation or less (it adds coin age
\* unless its value * timeDiff is below centValue), and past the
\* fermentation it adds exactly 100 times what a regular transaction to
\* the signer of the same value and timeDiff adds.
C27_GrantHundredfold ==
    GrantCalled =>
        /\ BigCmp(BigMul(lastCall.block.txs[1].Value, NatToBig(lastCall.timeDiff)),
                  NatToBig(centValue)) >= 0 =>
              BigCmp(AddedBy(lastCall.op, lastCall.block.txs, lastCall.timeDiff),
                     big0) = 1
        /\ lastCall.timeDiff > Config.CoinAgeFermentation =>
              BigCmp(AddedBy(lastCall.op, lastCall.block.txs, lastCall.timeDiff),
                     BigMul(NatToBig(100),
                            AddedBy(lastCall.op, Unrecovered(lastCall.block.txs),
                                    lastCall.timeDiff))) = 0

-----------------------------------------------------------------------------
(* Prepare on the chains and at the times a node can see                   *)

\* the times of the calls: a block period after the head, 256 seconds and
\* eight days after the genesis block
PrepareClocks(chain) ==
    {Tip(chain).Time + Config.BlockPeriod, Genesis.Timestamp + 256,
     Genesis.Timestamp + 8 * Day}

\* the engine of a signer with a chain: the genesis block alone, or three
\* blocks of the peers on it
InitPrepare ==
    /\ chainConfig = NoFork
    /\ engineSigner \in {"A", "B"}
    /\ blockchain \in {<<GenesisBlock>>}
                        \cup {CaChain(engineSigner, txs, "X", big0) :
                                 txs \in CaTxSets(engineSigner)}
    /\ clock \in PrepareClocks(blockchain)
    /\ work = NoWork
    /\ dbCoinAge = [a \in Accounts |-> NoCoinAge]
    /\ lastCall = [op |-> "New", err |-> "nil", block |-> GenesisBlock]
    /\ SmIdle /\ CodecIdle /\ BatchIdle /\ LockIdle

NextPrepare ==
    \E extra \in HostExtras, given \in PrepareGiven(blockchain, clock) :
        MinerPrepare(extra, given)

SpecPrepare == InitPrepare /\ [][NextPrepare]_vars

\* the positions of header.Extra that extractStake reads
StakeRange(header) ==
    LET n == Len(header.Extra)
    IN  (n - extraSeal - extraCoinAge + 1) .. (n - extraSeal)

\* the positions of header.Extra that extractKernel reads
KernelRange(header) ==
    LET n == Len(header.Extra)
    IN  (n - extraSeal - extraCoinAge - extraKernel + 1) .. (n - extraSeal - extraCoinAge)

\* the positions of header.Extra that hold the seal
SealRange(header) ==
    LET n == Len(header.Extra)
    IN  (n - extraSeal + 1) .. n

\* C29: after Prepare the extra-data is extraDefault + extraKernel +
\* extraCoinAge + extraSeal bytes long whatever it was before,
\* extractStake(header) returns the coin age record that Prepare has
\* computed, and extractStake, extractKernel and the seal read ranges that
\* do not overlap.
C29_PreparedExtra ==
    Prepared =>
        /\ Len(lastCall.block.header.Extra)
              = extraDefault + extraKernel + extraCoinAge + extraSeal
        /\ extractStake(lastCall.block.header).err = "nil"
        /\ extractStake(lastCall.block.header).ca = dbCoinAge[engineSigner].ca
        /\ StakeRange(lastCall.block.header) \cap KernelRange(lastCall.block.header) = {}
        /\ StakeRange(lastCall.block.header) \cap SealRange(lastCall.block.header) = {}
        /\ KernelRange(lastCall.block.header) \cap SealRange(lastCall.block.header) = {}

\* the position of a statement among those Finalize has run, 0 when it has
\* not run
DoneAt(step) ==
    IF \E i \in 1 .. Len(work.done) : work.done[i] = step
    THEN CHOOSE i \in 1 .. Len(work.done) : work.done[i] = step
    ELSE 0

\* Finalize has written header.Root
RootWritten ==
    /\ work.stage \in {"finalizing", "finalized"}
    /\ DoneAt("IntermediateRoot") > 0

\* C30, as the code has it: in Finalize accumulateRewards runs before the
\* state root is computed and written to header.Root, so that the root is
\* the one of the balances with the reward credits; reduceCoinAge runs
\* after the root is written and leaves the balances as they are.
C30_RootAfterRewards ==
    /\ RootWritten =>
          /\ DoneAt("accumulateRewards") > 0
          /\ DoneAt("accumulateRewards") < DoneAt("IntermediateRoot")
          /\ work.block.header.Root
                = IntermediateRoot(accumulateRewards(work.block.header, work.before))
          /\ work.block.header.Root = IntermediateRoot(work.state)
    /\ Reduced =>
          /\ RootWritten
          /\ DoneAt("IntermediateRoot") < DoneAt("reduceCoinAge")

\* C30: in Finalize accumulateRewards runs before reduceCoinAge, and both
\* have run when the state root is computed and written to header.Root.
C30_RootAfterBoth ==
    RootWritten =>
        /\ DoneAt("accumulateRewards") > 0
        /\ DoneAt("reduceCoinAge") > 0
        /\ DoneAt("accumulateRewards") < DoneAt("reduceCoinAge")
        /\ DoneAt("reduceCoinAge") < DoneAt("IntermediateRoot")

\* Finalize has returned a block whose root holds reward credits, with the
\* coin age of the coinbase reduced after the root
C30_RootHoldsCredits ==
    /\ work.stage = "finalized"
    /\ RootWritten
    /\ Reduced
    /\ BigCmp(RewardNetto, big0) = 1
    /\ work.block.header.Root # IntermediateRoot(work.before)
    /\ lastCall.block.header.Root = IntermediateRoot(work.state)

\* C11: once the abort channel of a VerifyHeaders call has been signalled,
\* the worker publishes no further result on the results channel.
C11_NoResultAfterAbort == [][abort => published' = published]_vars

=============================================================================
